---- MODULE Spec2Model ----
(***************************************************************************)
(* A model of pyTigerGraph's TigerGraphConnection: the cached schema       *)
(* snapshot (getSchema and the parsers of the gsql console text it calls)  *)
(* and parseQueryOutput, the decoder/deduplicator of query results.        *)
(*                                                                         *)
(* Python values are modelled as follows.                                  *)
(*   str    a sequence of one-character strings (so that slicing, find,    *)
(*          split and the like are computed, not assumed); short keys and  *)
(*          identifiers that the code only compares or concatenates are    *)
(*          TLA+ strings                                                   *)
(*   dict   a function from keys to values; where the code relies on the   *)
(*          insertion order of a dict, a sequence of <<key, value>> pairs  *)
(*   list   a sequence                                                     *)
(*   raise  the field err of the handler's context, which every later step *)
(*          of the handler passes through unchanged                        *)
(***************************************************************************)
EXTENDS Integers, Sequences, FiniteSets, TLC

(***************************************************************************)
(* Python's str operations, on sequences of characters.                    *)
(***************************************************************************)

Max(a, b) == IF a >= b THEN a ELSE b

Min(a, b) == IF a <= b THEN a ELSE b

\* A slice bound as Python normalises it: negative counts from the end,
\* and the result is clipped to 0..len.
SliceBound(n, len) == IF n < 0 THEN Max(len + n, 0) ELSE Min(n, len)

\* s[a:b]
Slice(s, a, b) ==
  LET Between(lo, hi) == IF hi <= lo THEN << >> ELSE SubSeq(s, lo + 1, hi)
  IN  Between(SliceBound(a, Len(s)), SliceBound(b, Len(s)))

\* s[a:]
SliceFrom(s, a) == SubSeq(s, SliceBound(a, Len(s)) + 1, Len(s))

\* s.startswith(p)
StartsWith(s, p) == Len(p) <= Len(s) /\ SubSeq(s, 1, Len(p)) = p

\* s.endswith(p)
EndsWith(s, p) ==
  Len(p) <= Len(s) /\ SubSeq(s, Len(s) - Len(p) + 1, Len(s)) = p

\* The 0-based positions at which p occurs in s.
Occurrences(s, p) ==
  { k \in 0..(Len(s) - Len(p)) : SubSeq(s, k + 1, k + Len(p)) = p }

SetMin(S) == CHOOSE x \in S : \A y \in S : x <= y

SetMax(S) == CHOOSE x \in S : \A y \in S : x >= y

\* The first position of p in s at or after k, -1 when there is none.
RECURSIVE FindFrom(_, _, _)
FindFrom(s, p, k) ==
  IF k + Len(p) > Len(s) THEN -1
  ELSE IF SubSeq(s, k + 1, k + Len(p)) = p THEN k
  ELSE FindFrom(s, p, k + 1)

\* s.find(p): the first position of p in s, -1 when there is none.
Find(s, p) == FindFrom(s, p, 0)

\* s.rfind(p)
RFind(s, p) ==
  LET Last(occ) == IF occ = {} THEN -1 ELSE SetMax(occ)
  IN  Last(Occurrences(s, p))

\* The parts of s from position start on, between the occurrences of sep.
RECURSIVE SplitFrom(_, _, _)
SplitFrom(s, sep, start) ==
  LET Cut(k) ==
        IF k = -1 THEN << SubSeq(s, start + 1, Len(s)) >>
        ELSE << SubSeq(s, start + 1, k) >> \o SplitFrom(s, sep, k + Len(sep))
  IN  Cut(FindFrom(s, sep, start))

\* s.split(sep), sep a non-empty string: the parts between the occurrences
\* of sep, taken left to right, empty parts kept.
Split(s, sep) == SplitFrom(s, sep, 0)

Whitespace == {" ", "\n", "\t", "\r"}

\* s.lstrip(chars) and s.rstrip(chars), chars a set of characters.
RECURSIVE LStrip(_, _)
LStrip(s, chars) ==
  IF s # << >> /\ Head(s) \in chars THEN LStrip(Tail(s), chars) ELSE s

RECURSIVE RStrip(_, _)
RStrip(s, chars) ==
  IF s # << >> /\ s[Len(s)] \in chars
  THEN RStrip(SubSeq(s, 1, Len(s) - 1), chars)
  ELSE s

\* s.split(): the maximal runs of non-whitespace characters.
RECURSIVE SplitWs(_)
SplitWs(s) ==
  LET Stop(t, ends) == IF ends = {} THEN Len(t) + 1 ELSE SetMin(ends)
      Word(t, stop) ==
        << SubSeq(t, 1, stop - 1) >> \o SplitWs(SubSeq(t, stop, Len(t)))
      Words(t) ==
        IF t = << >> THEN << >>
        ELSE Word(t, Stop(t, { k \in 1..Len(t) : t[k] \in Whitespace }))
  IN  Words(LStrip(s, Whitespace))

\* s.replace(old, new): every non-overlapping occurrence, left to right.
RECURSIVE Replace(_, _, _)
Replace(s, old, new) ==
  LET At(k) ==
        IF k = -1 THEN s
        ELSE SubSeq(s, 1, k) \o new
               \o Replace(SubSeq(s, k + Len(old) + 1, Len(s)), old, new)
  IN  At(Find(s, old))

Lower == << "a", "b", "c", "d", "e", "f", "g", "h", "i", "j", "k", "l", "m",
            "n", "o", "p", "q", "r", "s", "t", "u", "v", "w", "x", "y", "z" >>

Upper == << "A", "B", "C", "D", "E", "F", "G", "H", "I", "J", "K", "L", "M",
            "N", "O", "P", "Q", "R", "S", "T", "U", "V", "W", "X", "Y", "Z" >>

\* s.upper()
ToUpper(s) ==
  [ k \in 1..Len(s) |->
      IF \E j \in 1..Len(Lower) : Lower[j] = s[k]
      THEN Upper[CHOOSE j \in 1..Len(Lower) : Lower[j] = s[k]]
      ELSE s[k] ]

\* sep.join(parts)
RECURSIVE Join(_, _)
Join(parts, sep) ==
  IF parts = << >> THEN << >>
  ELSE IF Len(parts) = 1 THEN parts[1]
  ELSE parts[1] \o sep \o Join(Tail(parts), sep)


(***************************************************************************)
(* The database the connection talks to.  Each record holds what the       *)
(* server answers to the requests getSchema makes; the transport itself    *)
(* (_req, gsql's subprocess) is outside the model.                         *)
(*   schema     GET /gsqlserver/gsql/schema                                *)
(*   udtlist    GET /gsqlserver/gsql/udtlist                               *)
(*   ls         the console text of gsql "ls"                              *)
(*   queries    the console text of gsql "SHOW QUERY <name>", by name      *)
(*   endpoints  GET /endpoints?dynamic=true, in the order of the response  *)
(*   users      the console text of gsql "SHOW USER"                       *)
(*   groups     the console text of gsql "SHOW GROUP"                      *)
(***************************************************************************)

\* self.graphname
graphname == <<"g">>

NL == <<"\n">>

EmptyDict == << >>

\* ---- Graph g
\* Vertex Types:
\*   - VERTEX P(PRIMARY_ID id STRING, n INT)
\* Edge Types:
\*   - DIRECTED EDGE K(FROM P, TO P) WITH REVERSE_EDGE="rK"
\*   - UNDIRECTED EDGE F(FROM P, TO P)
\*
\* Graphs:
\*   - Graph g(P:v, K:e, F:e)
\* Jobs:
\*   - CREATE LOADING JOB j1 FOR GRAPH g {
\*       LOAD f TO VERTEX P VALUES($0);
\*     }
\*
\* Queries:
\*   - q1(string p)
\*   - q2() (deprecated)
\*
\* User defined tuples:
\*   - T1 (a INT)
\*
\* Data Sources:
\*   - s3 d1 ("k")
\*
\* Indexes:
\*   - i1:P(n)
\*
LsLinesA == <<
  <<"-", "-", "-", "-", " ", "G", "r", "a", "p", "h", " ", "g">>,
  <<"V", "e", "r", "t", "e", "x", " ", "T", "y", "p", "e", "s",
      ":">>,
  <<" ", " ", "-", " ", "V", "E", "R", "T", "E", "X", " ", "P",
      "(", "P", "R", "I", "M", "A", "R", "Y", "_", "I", "D", " ",
      "i", "d", " ", "S", "T", "R", "I", "N", "G", ",", " ", "n",
      " ", "I", "N", "T", ")">>,
  <<"E", "d", "g", "e", " ", "T", "y", "p", "e", "s", ":">>,
  <<" ", " ", "-", " ", "D", "I", "R", "E", "C", "T", "E", "D",
      " ", "E", "D", "G", "E", " ", "K", "(", "F", "R", "O", "M",
      " ", "P", ",", " ", "T", "O", " ", "P", ")", " ", "W", "I",
      "T", "H", " ", "R", "E", "V", "E", "R", "S", "E", "_", "E",
      "D", "G", "E", "=", "\"", "r", "K", "\"">>,
  <<" ", " ", "-", " ", "U", "N", "D", "I", "R", "E", "C", "T",
      "E", "D", " ", "E", "D", "G", "E", " ", "F", "(", "F", "R",
      "O", "M", " ", "P", ",", " ", "T", "O", " ", "P", ")">>,
  << >>,
  <<"G", "r", "a", "p", "h", "s", ":">>,
  <<" ", " ", "-", " ", "G", "r", "a", "p", "h", " ", "g", "(",
      "P", ":", "v", ",", " ", "K", ":", "e", ",", " ", "F", ":",
      "e", ")">>,
  <<"J", "o", "b", "s", ":">>,
  <<" ", " ", "-", " ", "C", "R", "E", "A", "T", "E", " ", "L",
      "O", "A", "D", "I", "N", "G", " ", "J", "O", "B", " ", "j",
      "1", " ", "F", "O", "R", " ", "G", "R", "A", "P", "H", " ",
      "g", " ", "{">>,
  <<" ", " ", " ", " ", " ", " ", "L", "O", "A", "D", " ", "f",
      " ", "T", "O", " ", "V", "E", "R", "T", "E", "X", " ", "P",
      " ", "V", "A", "L", "U", "E", "S", "(", "$", "0", ")", ";">>,
  <<" ", " ", " ", " ", "}">>,
  << >>,
  <<"Q", "u", "e", "r", "i", "e", "s", ":">>,
  <<" ", " ", "-", " ", "q", "1", "(", "s", "t", "r", "i", "n",
      "g", " ", "p", ")">>,
  <<" ", " ", "-", " ", "q", "2", "(", ")", " ", "(", "d", "e",
      "p", "r", "e", "c", "a", "t", "e", "d", ")">>,
  << >>,
  <<"U", "s", "e", "r", " ", "d", "e", "f", "i", "n", "e", "d",
      " ", "t", "u", "p", "l", "e", "s", ":">>,
  <<" ", " ", "-", " ", "T", "1", " ", "(", "a", " ", "I", "N",
      "T", ")">>,
  << >>,
  <<"D", "a", "t", "a", " ", "S", "o", "u", "r", "c", "e", "s",
      ":">>,
  <<" ", " ", "-", " ", "s", "3", " ", "d", "1", " ", "(", "\"",
      "k", "\"", ")">>,
  << >>,
  <<"I", "n", "d", "e", "x", "e", "s", ":">>,
  <<" ", " ", "-", " ", "i", "1", ":", "P", "(", "n", ")">>,
  << >>,
  << >> >>

\* CREATE QUERY q1(string p) FOR GRAPH g {
\*   PRINT p;
\* }
ShowQ1 == Join(<< <<"C", "R", "E", "A", "T", "E", " ", "Q", "U", "E", "R", "Y",
      " ", "q", "1", "(", "s", "t", "r", "i", "n", "g", " ", "p",
      ")", " ", "F", "O", "R", " ", "G", "R", "A", "P", "H", " ",
      "g", " ", "{">>,
                  <<" ", " ", "P", "R", "I", "N", "T", " ", "p", ";">>,
                  <<"}">>,
                  << >> >>, NL)

\* Using graph 'g'
\* CREATE QUERY q2() FOR GRAPH g {
\* }
ShowQ2 == Join(<< <<"U", "s", "i", "n", "g", " ", "g", "r", "a", "p", "h", " ",
      "'", "g", "'">>,
                  <<"C", "R", "E", "A", "T", "E", " ", "Q", "U", "E", "R", "Y",
      " ", "q", "2", "(", ")", " ", "F", "O", "R", " ", "G", "R",
      "A", "P", "H", " ", "g", " ", "{">>,
                  <<"}">>,
                  << >> >>, NL)

\* What gsql prints for a query it does not know.
ShowQNone == <<"Q", "u", "e", "r", "y", " ", "c", "o", "u", "l", "d", " ",
      "n", "o", "t", " ", "b", "e", " ", "f", "o", "u", "n", "d",
      ".", "\n">>

\*   - Name: tigergraph
\*     - Global Roles: superuser
\*
\*   - Name: u1
\*     - Global Roles:
\*     - GraphName: g
\*       - Roles: r1, r2
\*
UserLinesA == <<
  <<" ", " ", "-", " ", "N", "a", "m", "e", ":", " ", "t", "i",
      "g", "e", "r", "g", "r", "a", "p", "h">>,
  <<" ", " ", " ", " ", "-", " ", "G", "l", "o", "b", "a", "l",
      " ", "R", "o", "l", "e", "s", ":", " ", "s", "u", "p", "e",
      "r", "u", "s", "e", "r">>,
  << >>,
  <<" ", " ", "-", " ", "N", "a", "m", "e", ":", " ", "u", "1">>,
  <<" ", " ", " ", " ", "-", " ", "G", "l", "o", "b", "a", "l",
      " ", "R", "o", "l", "e", "s", ":">>,
  <<" ", " ", " ", " ", "-", " ", "G", "r", "a", "p", "h", "N",
      "a", "m", "e", ":", " ", "g">>,
  <<" ", " ", " ", " ", " ", " ", "-", " ", "R", "o", "l", "e",
      "s", ":", " ", "r", "1", ",", " ", "r", "2">>,
  << >>,
  << >> >>

\*   - Name: g1
\*     - Rule: a=b
\*     - GraphName: g
\*       - Roles: r1
\*
GroupLinesA == <<
  <<" ", " ", "-", " ", "N", "a", "m", "e", ":", " ", "g", "1">>,
  <<" ", " ", " ", " ", "-", " ", "R", "u", "l", "e", ":", " ",
      "a", "=", "b">>,
  <<" ", " ", " ", " ", "-", " ", "G", "r", "a", "p", "h", "N",
      "a", "m", "e", ":", " ", "g">>,
  <<" ", " ", " ", " ", " ", " ", "-", " ", "R", "o", "l", "e",
      "s", ":", " ", "r", "1">>,
  << >>,
  << >> >>

VertexP == [Name |-> <<"P">>, PrimaryId |-> <<"i", "d">>]

VertexQ == [Name |-> <<"Q">>, PrimaryId |-> <<"i", "d">>]

\* A directed edge type with a reverse edge.
EdgeK == [Name |-> <<"K">>, IsDirected |-> TRUE,
          Config |-> [REVERSE_EDGE |-> <<"r", "K">>],
          FromVertexTypeName |-> <<"P">>, ToVertexTypeName |-> <<"P">>]

\* An undirected edge type.
EdgeF == [Name |-> <<"F">>, IsDirected |-> FALSE, Config |-> EmptyDict,
          FromVertexTypeName |-> <<"P">>, ToVertexTypeName |-> <<"P">>]

\* A directed edge type without a reverse edge.
EdgeD == [Name |-> <<"D">>, IsDirected |-> TRUE, Config |-> EmptyDict,
          FromVertexTypeName |-> <<"P">>, ToVertexTypeName |-> <<"Q">>]

\* A complete, well-formed database: every block of the ls text is closed
\* by its terminating line; q1 is installed (it has an endpoint), q2 is
\* listed but not installed, q3 has an endpoint without being listed.
DbA == [
  schema    |-> [GraphName |-> graphname,
                 VertexTypes |-> << VertexP >>,
                 EdgeTypes |-> << EdgeK, EdgeF >>],
  udtlist   |-> << [name |-> <<"T", "1">>, fields |-> << <<"a">> >>] >>,
  ls        |-> Join(LsLinesA, NL),
  queries   |-> << << <<"q", "1">>, ShowQ1 >>, << <<"q", "2">>, ShowQ2 >> >>,
  endpoints |-> << << <<"G", "E", "T", " ", "/", "q", "u", "e", "r", "y", "/", "g",
      "/", "q", "1">>,
                      [parameters |-> [query |-> [default |-> <<"q", "1">>],
                                       p |-> [default |-> << >>]]] >>,
                   << <<"P", "O", "S", "T", " ", "/", "q", "u", "e", "r", "y", "/",
      "g", "/", "q", "1">>,
                      [parameters |-> [query |-> [default |-> <<"q", "1">>]]] >>,
                   << <<"G", "E", "T", " ", "/", "q", "u", "e", "r", "y", "/", "g",
      "/", "q", "3">>,
                      [parameters |-> [query |-> [default |-> <<"q", "3">>]]] >> >>,
  users     |-> Join(UserLinesA, NL),
  groups    |-> Join(GroupLinesA, NL) ]

\* Vertex Types:
\*   - VERTEX Q(PRIMARY_ID id STRING)
\* Edge Types:
\*   - DIRECTED EDGE D(FROM P, TO Q)
\*
\* Queries:
\*   - q1()
\*
\* Indexes:
\*   - i2:Q(m)
\*   - i3:Z(k)
\*
LsLinesB == <<
  <<"V", "e", "r", "t", "e", "x", " ", "T", "y", "p", "e", "s",
      ":">>,
  <<" ", " ", "-", " ", "V", "E", "R", "T", "E", "X", " ", "Q",
      "(", "P", "R", "I", "M", "A", "R", "Y", "_", "I", "D", " ",
      "i", "d", " ", "S", "T", "R", "I", "N", "G", ")">>,
  <<"E", "d", "g", "e", " ", "T", "y", "p", "e", "s", ":">>,
  <<" ", " ", "-", " ", "D", "I", "R", "E", "C", "T", "E", "D",
      " ", "E", "D", "G", "E", " ", "D", "(", "F", "R", "O", "M",
      " ", "P", ",", " ", "T", "O", " ", "Q", ")">>,
  << >>,
  <<"Q", "u", "e", "r", "i", "e", "s", ":">>,
  <<" ", " ", "-", " ", "q", "1", "(", ")">>,
  << >>,
  <<"I", "n", "d", "e", "x", "e", "s", ":">>,
  <<" ", " ", "-", " ", "i", "2", ":", "Q", "(", "m", ")">>,
  <<" ", " ", "-", " ", "i", "3", ":", "Z", "(", "k", ")">>,
  << >>,
  << >> >>

\* The database after a schema change: other vertex, edge and index types,
\* no loading job, no data source, no user but tigergraph, no group.  The
\* edge type W goes from and to several vertex types, listed as pairs; X
\* goes from and to any vertex type, in the notation without pairs.
DbB == [
  schema    |-> [GraphName |-> graphname,
                 VertexTypes |-> << VertexP, VertexQ >>,
                 EdgeTypes |-> <<
                   EdgeD,
                   [Name |-> <<"W">>, IsDirected |-> TRUE, Config |-> EmptyDict,
                    FromVertexTypeName |-> <<"*">>, ToVertexTypeName |-> <<"*">>,
                    EdgePairs |-> << [From |-> <<"P">>, To |-> <<"Q">>],
                                     [From |-> <<"Q">>, To |-> <<"Q">>],
                                     [From |-> <<"P">>, To |-> <<"Q">>] >>],
                   [Name |-> <<"X">>, IsDirected |-> TRUE, Config |-> EmptyDict,
                    FromVertexTypeName |-> <<"*">>, ToVertexTypeName |-> <<"*">>] >>],
  udtlist   |-> << >>,
  ls        |-> Join(LsLinesB, NL),
  queries   |-> << << <<"q", "1">>, ShowQ1 >> >>,
  endpoints |-> << << <<"G", "E", "T", " ", "/", "q", "u", "e", "r", "y", "/", "g",
      "/", "q", "1">>,
                      [parameters |-> [query |-> [default |-> <<"q", "1">>]]] >> >>,
  users     |-> Join(<< <<" ", " ", "-", " ", "N", "a", "m", "e", ":", " ", "t", "i",
      "g", "e", "r", "g", "r", "a", "p", "h">>, << >>, << >> >>, NL),
  groups    |-> << >> ]

\* Vertex Types:
\*   - VERTEX P(PRIMARY_ID id STRING, n INT)
\* Queries:
\*   - q1(string p)
\*
\* Indexes:
\*   - i1:P(n)
LsLinesC == <<
  <<"V", "e", "r", "t", "e", "x", " ", "T", "y", "p", "e", "s",
      ":">>,
  <<" ", " ", "-", " ", "V", "E", "R", "T", "E", "X", " ", "P",
      "(", "P", "R", "I", "M", "A", "R", "Y", "_", "I", "D", " ",
      "i", "d", " ", "S", "T", "R", "I", "N", "G", ",", " ", "n",
      " ", "I", "N", "T", ")">>,
  <<"Q", "u", "e", "r", "i", "e", "s", ":">>,
  <<" ", " ", "-", " ", "q", "1", "(", "s", "t", "r", "i", "n",
      "g", " ", "p", ")">>,
  << >>,
  <<"I", "n", "d", "e", "x", "e", "s", ":">>,
  <<" ", " ", "-", " ", "i", "1", ":", "P", "(", "n", ")">> >>

\* A database whose ls text ends inside the index block, without the blank
\* line that closes it.
DbC == [DbA EXCEPT !.ls = Join(LsLinesC, NL)]

\* Vertex Types:
\*   - VERTEX P(PRIMARY_ID id STRING, n INT)
\*   - VERTEX Q(PRIMARY_ID id STRING)
\* Edge Types:
\*   - DIRECTED EDGE K(FROM P, TO P) WITH REVERSE_EDGE="rK"
\*   - UNDIRECTED EDGE F(FROM P, TO P)
\*   - DIRECTED EDGE D(FROM P, TO Q)
\*
LsLinesD == <<
  <<"V", "e", "r", "t", "e", "x", " ", "T", "y", "p", "e", "s",
      ":">>,
  <<" ", " ", "-", " ", "V", "E", "R", "T", "E", "X", " ", "P",
      "(", "P", "R", "I", "M", "A", "R", "Y", "_", "I", "D", " ",
      "i", "d", " ", "S", "T", "R", "I", "N", "G", ",", " ", "n",
      " ", "I", "N", "T", ")">>,
  <<" ", " ", "-", " ", "V", "E", "R", "T", "E", "X", " ", "Q",
      "(", "P", "R", "I", "M", "A", "R", "Y", "_", "I", "D", " ",
      "i", "d", " ", "S", "T", "R", "I", "N", "G", ")">>,
  <<"E", "d", "g", "e", " ", "T", "y", "p", "e", "s", ":">>,
  <<" ", " ", "-", " ", "D", "I", "R", "E", "C", "T", "E", "D",
      " ", "E", "D", "G", "E", " ", "K", "(", "F", "R", "O", "M",
      " ", "P", ",", " ", "T", "O", " ", "P", ")", " ", "W", "I",
      "T", "H", " ", "R", "E", "V", "E", "R", "S", "E", "_", "E",
      "D", "G", "E", "=", "\"", "r", "K", "\"">>,
  <<" ", " ", "-", " ", "U", "N", "D", "I", "R", "E", "C", "T",
      "E", "D", " ", "E", "D", "G", "E", " ", "F", "(", "F", "R",
      "O", "M", " ", "P", ",", " ", "T", "O", " ", "P", ")">>,
  <<" ", " ", "-", " ", "D", "I", "R", "E", "C", "T", "E", "D",
      " ", "E", "D", "G", "E", " ", "D", "(", "F", "R", "O", "M",
      " ", "P", ",", " ", "T", "O", " ", "Q", ")">>,
  << >>,
  << >> >>

\* A database that holds a graph and nothing else: no job, no query, no
\* tuple, no data source, no index, no user but tigergraph.  Its edge types
\* are K, directed with a reverse edge, F, undirected, and D, directed
\* without a reverse edge.
DbD == [
  schema    |-> [GraphName |-> graphname,
                 VertexTypes |-> << VertexP, VertexQ >>,
                 EdgeTypes |-> << EdgeK, EdgeF, EdgeD >>],
  udtlist   |-> << >>,
  ls        |-> Join(LsLinesD, NL),
  queries   |-> << >>,
  endpoints |-> << >>,
  users     |-> Join(<< <<" ", " ", "-", " ", "N", "a", "m", "e", ":", " ", "t", "i",
      "g", "e", "r", "g", "r", "a", "p", "h">>, << >>, << >> >>, NL),
  groups    |-> << >> ]

\* Vertex Types:
\*   - VERTEX P
\* Queries:
\*   - q2
\*
LsLinesE == <<
  <<"V", "e", "r", "t", "e", "x", " ", "T", "y", "p", "e", "s",
      ":">>,
  <<" ", " ", "-", " ", "V", "E", "R", "T", "E", "X", " ", "P">>,
  <<"Q", "u", "e", "r", "i", "e", "s", ":">>,
  <<" ", " ", "-", " ", "q", "2">>,
  << >>,
  << >> >>

\* A database whose ls text has a vertex line and a query line without
\* the opening parenthesis.
DbE == [DbD EXCEPT !.ls = Join(LsLinesE, NL)]

\* Indexes:
\*   - idx1:Person(name)
\*
LsLinesI == <<
  <<"I", "n", "d", "e", "x", "e", "s", ":">>,
  <<" ", " ", "-", " ", "i", "d", "x", "1", ":", "P", "e", "r",
      "s", "o", "n", "(", "n", "a", "m", "e", ")">>,
  << >>,
  << >> >>

\* A database whose ls text is one index block.
DbI == [DbD EXCEPT !.ls = Join(LsLinesI, NL)]

\* Indexes:
\*   - i1:P(n)
\*   - i2:P(m)
\*
\*   - Graph g(P:v)
\* Jobs:
\*   - CREATE LOADING JOB j1 FOR GRAPH g {
\*       LOAD f TO VERTEX P VALUES($0);
\*     }
\*   - CREATE LOADING JOB j2 FOR GRAPH g {
\*     }
\* Queries:
\*   - q1(string p)
\*   - q1(string p)
\*
LsLinesJ == <<
  <<"I", "n", "d", "e", "x", "e", "s", ":">>,
  <<" ", " ", "-", " ", "i", "1", ":", "P", "(", "n", ")">>,
  <<" ", " ", "-", " ", "i", "2", ":", "P", "(", "m", ")">>,
  << >>,
  <<" ", " ", "-", " ", "G", "r", "a", "p", "h", " ", "g", "(",
      "P", ":", "v", ")">>,
  <<"J", "o", "b", "s", ":">>,
  <<" ", " ", "-", " ", "C", "R", "E", "A", "T", "E", " ", "L",
      "O", "A", "D", "I", "N", "G", " ", "J", "O", "B", " ", "j",
      "1", " ", "F", "O", "R", " ", "G", "R", "A", "P", "H", " ",
      "g", " ", "{">>,
  <<" ", " ", " ", " ", " ", " ", "L", "O", "A", "D", " ", "f",
      " ", "T", "O", " ", "V", "E", "R", "T", "E", "X", " ", "P",
      " ", "V", "A", "L", "U", "E", "S", "(", "$", "0", ")", ";">>,
  <<" ", " ", " ", " ", "}">>,
  <<" ", " ", "-", " ", "C", "R", "E", "A", "T", "E", " ", "L",
      "O", "A", "D", "I", "N", "G", " ", "J", "O", "B", " ", "j",
      "2", " ", "F", "O", "R", " ", "G", "R", "A", "P", "H", " ",
      "g", " ", "{">>,
  <<" ", " ", " ", " ", "}">>,
  <<"Q", "u", "e", "r", "i", "e", "s", ":">>,
  <<" ", " ", "-", " ", "q", "1", "(", "s", "t", "r", "i", "n",
      "g", " ", "p", ")">>,
  <<" ", " ", "-", " ", "q", "1", "(", "s", "t", "r", "i", "n",
      "g", " ", "p", ")">>,
  << >>,
  << >> >>

\* A database with two index lines closed by a blank line that a graph
\* line follows, and two loading jobs in a row that the query list follows;
\* the query q1 is listed twice and two endpoints have it for default query,
\* the first with a parameter p; q3 has an endpoint without being listed.
DbJ == [DbD EXCEPT
  !.ls = Join(LsLinesJ, NL),
  !.queries = << << <<"q", "1">>, ShowQ1 >> >>,
  !.endpoints = << << <<"G", "E", "T", " ", "/", "q", "u", "e", "r", "y", "/", "g",
      "/", "q", "1">>,
                      [parameters |-> [query |-> [default |-> <<"q", "1">>],
                                       p |-> [default |-> << >>]]] >>,
                   << <<"G", "E", "T", " ", "/", "q", "u", "e", "r", "y", "/", "g",
      "/", "q", "1", "/", "x">>,
                      [parameters |-> [query |-> [default |-> <<"q", "1">>]]] >>,
                   << <<"G", "E", "T", " ", "/", "q", "u", "e", "r", "y", "/", "g",
      "/", "q", "3">>,
                      [parameters |-> [query |-> [default |-> <<"q", "3">>]]] >> >>]

\* The databases a behaviour may meet, in no particular order.
Databases == { DbA, DbB, DbC, DbE, DbI, DbJ }

(***************************************************************************)
(* Handlers' contexts.  A handler that works on self.schema threads a      *)
(* record [schema, err, calls] through its steps: err is "none" or the     *)
(* name of the exception raised, calls lists the requests sent to the      *)
(* server.  What a step wrote to self.schema before a raise stays written. *)
(***************************************************************************)

\* self.schema = None, as __init__ leaves it.
NoSchema == [None |-> TRUE]

\* not self.schema
Falsy(schema) == "None" \in DOMAIN schema \/ DOMAIN schema = {}

HasKey(d, k) == k \in DOMAIN d

\* d[k] = v
SetKey(d, k, v) == (k :> v) @@ d

\* A pop that leaves the key in the dictionary.
KeepKey(d, k) == d

\* d.pop(k), for a key d holds
PopKey(d, k) == [ j \in DOMAIN d \ {k} |-> d[j] ]

Raise(st, e) == [st EXCEPT !.err = e]

Called(st, what) == [st EXCEPT !.calls = Append(@, what)]

\* A search by name that finds nothing.
NeverNamed(list, name) == 0

\* The index of the first record of list whose Name is name, 0 for none:
\* the loop "for v in vs: if v["Name"] == name: ...; break".
FirstNamed(list, name) ==
  LET First(hits) == IF hits = {} THEN 0 ELSE SetMin(hits)
  IN  First({ k \in 1..Len(list) : list[k].Name = name })

\* The list of self.schema under key, with its first record named name
\* (if any) given field = value.
SetFieldOfNamed(schema, key, name, field, value) ==
  LET SetAt(k) ==
        IF k = 0 THEN schema
        ELSE [schema EXCEPT ![key][k] = SetKey(@, field, value)]
  IN  SetAt(FirstNamed(schema[key], name))

\* self.schema[key].append(rec)
AppendTo(schema, key, rec) == [schema EXCEPT ![key] = Append(@, rec)]

\* What gsql(query) returns: the console text of the command.  None of the
\* texts of the model ends in text that parses as JSON, so gsql returns
\* stdout as it is.
gsql(db, query) ==
  LET Shown(hits) == IF hits = {} THEN ShowQNone ELSE db.queries[SetMin(hits)][2]
      ShowQuery(name) ==
        Shown({ k \in 1..Len(db.queries) : db.queries[k][1] = name })
  IN  IF query = <<"l", "s">> THEN db.ls
      ELSE IF query = <<"S", "H", "O", "W", " ", "U", "S", "E", "R">> THEN db.users
      ELSE IF query = <<"S", "H", "O", "W", " ", "G", "R", "O", "U", "P">> THEN db.groups
      ELSE ShowQuery(SubSeq(query, Len(<<"S", "H", "O", "W", " ", "Q", "U", "E", "R", "Y", " ">>) + 1, Len(query)))

\* _getUDTs: the udtlist response with name and fields renamed.
_getUDTs(st, db) ==
  IF st.err # "none" THEN st
  ELSE [schema |-> SetKey(st.schema, "UDTs",
                     [ k \in 1..Len(db.udtlist) |->
                         [Name |-> db.udtlist[k].name,
                          Fields |-> db.udtlist[k].fields] ]),
        err |-> "none",
        calls |-> Append(st.calls, "GET udtlist")]

(***************************************************************************)
(* _getSchemaLs.  The loop state is [schema, err, calls, i]; res is the    *)
(* list of lines and i the 0-based cursor.  Each block extractor takes the *)
(* state at its header line and returns the state at the last line it      *)
(* consumed; the outer loop then adds one.                                 *)
(***************************************************************************)

LsObjTypes == << "VertexTypes", "EdgeTypes", "Indexes", "Queries",
                 "LoadingJobs", "DataSources", "Graphs" >>

\* The lists as they would be if every kind were set to an empty list,
\* the kinds the snapshot already has too.
RECURSIVE LsEnsureListsAll(_, _)
LsEnsureListsAll(schema, k) ==
  IF k > Len(LsObjTypes) THEN schema
  ELSE LsEnsureListsAll(SetKey(schema, LsObjTypes[k], << >>), k + 1)

\* for objType in [...]: if objType not in self.schema: self.schema[objType] = []
RECURSIVE LsEnsureLists(_, _)
LsEnsureLists(schema, k) ==
  IF k > Len(LsObjTypes) THEN schema
  ELSE LsEnsureLists(IF HasKey(schema, LsObjTypes[k]) THEN schema
                     ELSE SetKey(schema, LsObjTypes[k], << >>), k + 1)

\* re.sub(qpatt, "CREATE", txt) with qpatt = "[\s\S\n]+CREATE": the greedy
\* match runs from the start of txt through the last CREATE that has at
\* least one character before it.
ReSubCreate(txt) ==
  LET From(k) ==
        IF k >= 1 THEN <<"C", "R", "E", "A", "T", "E">> \o SliceFrom(txt, k + Len(<<"C", "R", "E", "A", "T", "E">>)) ELSE txt
  IN  From(RFind(txt, <<"C", "R", "E", "A", "T", "E">>))

\* l = res[i], which raises IndexError past the end of the list.
LineAt(res, i) == res[i + 1]

PastEnd(res, i) == i >= Len(res)

\* "  - VERTEX ..."
LsVertex(res, st) ==
  LET Line(l) ==
        [st EXCEPT !.schema =
           SetFieldOfNamed(@, "VertexTypes", Slice(l, 11, Find(l, <<"(">>)),
                           "Statement", <<"C", "R", "E", "A", "T", "E", " ">> \o SliceFrom(l, 4))]
  IN  Line(LineAt(res, st.i))

\* "  - DIRECTED ..." or "  - UNDIRECTED ..."
LsEdge(res, st) ==
  LET Line(l) ==
        [st EXCEPT !.schema =
           SetFieldOfNamed(@, "EdgeTypes",
                           Slice(l, Find(l, <<"E", "D", "G", "E">>) + 5, Find(l, <<"(">>)),
                           "Statement", <<"C", "R", "E", "A", "T", "E", " ">> \o SliceFrom(l, 4))]
  IN  Line(LineAt(res, st.i))

\* The while loop of the index block, entered at "l = res[i]".
RECURSIVE LsIndexLoop(_, _)
LsIndexLoop(res, st) ==
  LET Index(l2, l21, open) ==
        [Name |-> l2[1],
         Vertex |-> Slice(l21, 0, open),
         Attribute |-> Slice(l21, open + 1, Find(l21, <<")">>))]
      Parts(l2) ==
        IF Len(l2) < 2 THEN Raise(st, "IndexError")
        ELSE LsIndexLoop(res,
               [st EXCEPT
                  !.schema = AppendTo(@, "Indexes",
                                      Index(l2, l2[2], Find(l2[2], <<"(">>))),
                  !.i = @ + 1])
      Line(l) == IF l = << >> THEN st ELSE Parts(Split(SliceFrom(l, 4), <<":">>))
  IN  IF PastEnd(res, st.i) THEN Raise(st, "IndexError")
      ELSE Line(LineAt(res, st.i))

\* The index block as it would be if its extractor consumed the line after
\* the closing blank line as well.
LsIndexesPastBlank(res, st) ==
  LET Skip(done) ==
        IF done.err = "none" THEN [done EXCEPT !.i = @ + 1] ELSE done
  IN  Skip(LsIndexLoop(res, [st EXCEPT !.i = @ + 1]))

\* "Indexes:..."
LsIndexes(res, st) == LsIndexLoop(res, [st EXCEPT !.i = @ + 1])

\* The while loop of a loading job, entered at "l = res[i]" with the text
\* gathered so far; it ends at the line that stops the job.
RECURSIVE LsJobLoop(_, _, _)
LsJobLoop(res, st, txt) ==
  LET Line(l) ==
        IF StartsWith(l, <<" ", " ", "-", " ", "C", "R", "E", "A", "T", "E">>) \/ StartsWith(l, <<"Q", "u", "e", "r", "i", "e", "s">>)
        THEN [st |-> st, txt |-> txt]
        ELSE LsJobLoop(res, [st EXCEPT !.i = @ + 1], txt \o SliceFrom(l, 4) \o NL)
  IN  IF PastEnd(res, st.i) THEN [st |-> Raise(st, "IndexError"), txt |-> txt]
      ELSE Line(LineAt(res, st.i))

\* The loading job as it would be if the cursor stayed on the line that
\* stops the job, so that the outer loop steps over it.
LsLoadingJobNoRewind(res, st) ==
  LET Job(jobName, done) ==
        IF done.st.err # "none" THEN done.st
        ELSE [done.st EXCEPT
                !.schema = AppendTo(@, "LoadingJobs",
                             [Name |-> jobName,
                              Statement |-> RStrip(done.txt, {" ", "\n"})])]
      Header(tmp, toks) ==
        IF Len(toks) < 4 THEN Raise(st, "IndexError")
        ELSE Job(toks[4], LsJobLoop(res, [st EXCEPT !.i = @ + 1], tmp \o NL))
      Line(tmp) == Header(tmp, Split(tmp, <<" ">>))
  IN  Line(SliceFrom(LineAt(res, st.i), 4))

\* The loading job as it would be if the cursor were put back before the
\* header of the job.
LsLoadingJobToHeader(res, st) ==
  LET Job(jobName, done) ==
        IF done.st.err # "none" THEN done.st
        ELSE [done.st EXCEPT
                !.i = st.i - 1,
                !.schema = AppendTo(@, "LoadingJobs",
                             [Name |-> jobName,
                              Statement |-> RStrip(done.txt, {" ", "\n"})])]
      Header(tmp, toks) ==
        IF Len(toks) < 4 THEN Raise(st, "IndexError")
        ELSE Job(toks[4], LsJobLoop(res, [st EXCEPT !.i = @ + 1], tmp \o NL))
      Line(tmp) == Header(tmp, Split(tmp, <<" ">>))
  IN  Line(SliceFrom(LineAt(res, st.i), 4))

\* "  - CREATE LOADING JOB ..."
LsLoadingJob(res, st) ==
  LET Job(jobName, done) ==
        IF done.st.err # "none" THEN done.st
        ELSE [done.st EXCEPT
                !.i = @ - 1,
                !.schema = AppendTo(@, "LoadingJobs",
                             [Name |-> jobName,
                              Statement |-> RStrip(done.txt, {" ", "\n"})])]
      Header(tmp, toks) ==
        IF Len(toks) < 4 THEN Raise(st, "IndexError")
        ELSE Job(toks[4], LsJobLoop(res, [st EXCEPT !.i = @ + 1], tmp \o NL))
      Line(tmp) == Header(tmp, Split(tmp, <<" ">>))
  IN  Line(SliceFrom(LineAt(res, st.i), 4))

\* The while loop of the query list, entered at "l = res[i]".
RECURSIVE LsQueryLoop(_, _, _)
LsQueryLoop(res, st, db) ==
  LET Found(qName, txt, dep, k) ==
        IF k # 0
        THEN [st.schema EXCEPT !["Queries"][k] =
                SetKey(SetKey(@, "Statement", txt), "Deprecated", dep)]
        ELSE AppendTo(st.schema, "Queries",
                      [Name |-> qName, Statement |-> txt, Deprecated |-> dep])
      Query(l, qName) ==
        LsQueryLoop(res,
          [schema |-> Found(qName,
                            ReSubCreate(RStrip(gsql(db, <<"S", "H", "O", "W", " ", "Q", "U", "E", "R", "Y", " ">> \o qName),
                                               {" ", "\n"})),
                            EndsWith(l, <<"(", "d", "e", "p", "r", "e", "c", "a", "t", "e", "d", ")">>),
                            FirstNamed(st.schema["Queries"], qName)),
           err |-> st.err,
           calls |-> Append(st.calls, "gsql SHOW QUERY"),
           i |-> st.i + 1],
          db)
      Line(l) == IF l = << >> THEN st ELSE Query(l, Slice(l, 4, Find(l, <<"(">>)))
  IN  IF PastEnd(res, st.i) THEN Raise(st, "IndexError")
      ELSE Line(LineAt(res, st.i))

\* "Queries:..."
LsQueries(res, st, db) == LsQueryLoop(res, [st EXCEPT !.i = @ + 1], db)

\* The while loop of the UDT block, entered at "l = res[i]".
RECURSIVE LsUdtLoop(_, _)
LsUdtLoop(res, st) ==
  LET Udt(l, open, udtName) ==
        LsUdtLoop(res,
          [st EXCEPT
             !.schema = SetFieldOfNamed(@, "UDTs", udtName, "Statement",
                          <<"T", "Y", "P", "E", "D", "E", "F", " ", "T", "U", "P", "L",
      "E", " ", "<">> \o Slice(l, open + 1, -1)
                            \o <<">", " ">> \o udtName),
             !.i = @ + 1])
      Open(l, open) == Udt(l, open, RStrip(Slice(l, 4, open), Whitespace))
      Line(l) ==
        IF l = << >> THEN st
        ELSE IF ~HasKey(st.schema, "UDTs") THEN Raise(st, "KeyError")
        ELSE Open(l, Find(l, <<"(">>))
  IN  IF PastEnd(res, st.i) THEN Raise(st, "IndexError")
      ELSE Line(LineAt(res, st.i))

\* "User defined tuples:..."
LsUDTs(res, st) == LsUdtLoop(res, [st EXCEPT !.i = @ + 1])

\* The while loop of the data source block, entered at "l = res[i]".
RECURSIVE LsDataSourceLoop(_, _)
LsDataSourceLoop(res, st) ==
  LET DataSource(type, name, details) ==
        [Name |-> name, Type |-> type, Details |-> details,
         Statement |-> <<
           <<"C", "R", "E", "A", "T", "E", " ", "D", "A", "T", "A", "_",
      "S", "O", "U", "R", "C", "E", " ">> \o ToUpper(type) \o <<" ">> \o name \o <<" ", "=", " ", "\"">>
             \o Replace(RStrip(LStrip(details, {"("}), {")"}), <<"\"">>, <<"'">>)
             \o <<"\"">>,
           <<"G", "R", "A", "N", "T", " ", "D", "A", "T", "A", "_", "S",
      "O", "U", "R", "C", "E", " ">> \o name \o <<" ", "T", "O", " ", "G", "R", "A", "P", "H", " ">> \o graphname >>]
      Details(dsDetails) ==
        IF Len(dsDetails) < 3 THEN Raise(st, "IndexError")
        ELSE LsDataSourceLoop(res,
               [st EXCEPT
                  !.schema = AppendTo(@, "DataSources",
                               DataSource(dsDetails[1], dsDetails[2],
                                          dsDetails[3])),
                  !.i = @ + 1])
      Line(l) == IF l = << >> THEN st ELSE Details(SplitWs(SliceFrom(l, 4)))
  IN  IF PastEnd(res, st.i) THEN Raise(st, "IndexError")
      ELSE Line(LineAt(res, st.i))

\* "Data Sources:..."
LsDataSources(res, st) == LsDataSourceLoop(res, [st EXCEPT !.i = @ + 1])

\* "  - Graph ..."
LsGraph(res, st) ==
  LET Graph(gName, text) ==
        [st EXCEPT !.schema = AppendTo(@, "Graphs",
           [Name |-> gName,
            Statement |-> <<"C", "R", "E", "A", "T", "E", " ", "G", "R", "A", "P", "H",
      " ">>
                            \o Replace(Replace(text, <<":", "v">>, << >>), <<":", "e">>, << >>),
            Text |-> text])]
      Line(l) == Graph(Slice(l, 10, Find(l, <<"(">>)), SliceFrom(l, 10))
  IN  Line(LineAt(res, st.i))

\* One pass of the outer while loop, without its closing "i += 1": the
\* line at the cursor is classified by the first predicate it satisfies.
LsDispatch(res, st, db) ==
  IF StartsWith(LineAt(res, st.i), <<" ", " ", "-", " ", "V", "E", "R", "T", "E", "X">>) THEN LsVertex(res, st)
  ELSE IF StartsWith(LineAt(res, st.i), <<" ", " ", "-", " ", "D", "I", "R", "E", "C", "T", "E", "D">>)
            \/ StartsWith(LineAt(res, st.i), <<" ", " ", "-", " ", "U", "N", "D", "I", "R", "E", "C", "T",
      "E", "D">>)
       THEN LsEdge(res, st)
  ELSE IF StartsWith(LineAt(res, st.i), <<"I", "n", "d", "e", "x", "e", "s", ":">>) THEN LsIndexes(res, st)
  ELSE IF StartsWith(LineAt(res, st.i), <<" ", " ", "-", " ", "C", "R", "E", "A", "T", "E", " ", "L",
      "O", "A", "D", "I", "N", "G", " ", "J", "O", "B">>)
       THEN LsLoadingJob(res, st)
  ELSE IF StartsWith(LineAt(res, st.i), <<"Q", "u", "e", "r", "i", "e", "s", ":">>) THEN LsQueries(res, st, db)
  ELSE IF StartsWith(LineAt(res, st.i), <<"U", "s", "e", "r", " ", "d", "e", "f", "i", "n", "e", "d",
      " ", "t", "u", "p", "l", "e", "s", ":">>)
       THEN LsUDTs(res, st)
  ELSE IF StartsWith(LineAt(res, st.i), <<"D", "a", "t", "a", " ", "S", "o", "u", "r", "c", "e", "s",
      ":">>)
       THEN LsDataSources(res, st)
  ELSE IF StartsWith(LineAt(res, st.i), <<" ", " ", "-", " ", "G", "r", "a", "p", "h">>) THEN LsGraph(res, st)
  ELSE st

\* while i < len(res): ...; i += 1
RECURSIVE LsLoop(_, _, _)
LsLoop(res, st, db) ==
  LET Step(next) == LsLoop(res, [next EXCEPT !.i = @ + 1], db)
  IN  IF st.err # "none" \/ PastEnd(res, st.i) THEN st
      ELSE Step(LsDispatch(res, st, db))

_getSchemaLs(st, db) ==
  LET Done(done) ==
        [schema |-> done.schema, err |-> done.err, calls |-> done.calls]
  IN  IF st.err # "none" THEN st
      ELSE Done(LsLoop(Split(gsql(db, <<"l", "s">>), NL),
                       [schema |-> LsEnsureLists(st.schema, 1), err |-> "none",
                        calls |-> Append(st.calls, "gsql ls"), i |-> 0],
                       db))

\* getEndpoints(dynamic=True): of the endpoints the server lists, those
\* whose key matches "^GET /query/<graphname>", in the order of the response.
getEndpoints(db) ==
  LET RECURSIVE Pick(_)
      Pick(k) ==
        IF k > Len(db.endpoints) THEN << >>
        ELSE (IF StartsWith(db.endpoints[k][1], <<"G", "E", "T", " ", "/", "q", "u", "e", "r", "y", "/">> \o graphname)
              THEN << db.endpoints[k] >> ELSE << >>) \o Pick(k + 1)
  IN  Pick(1)

\* The for loop of _getQueries over the endpoints eps, from the k-th on.
RECURSIVE QueriesLoop(_, _, _)
QueriesLoop(eps, st, k) ==
  LET Fill(query, ep, params) ==
        SetKey(SetKey(SetKey(query,
          "Parameters", PopKey(params, "query")),
          "Endpoint", Split(ep, <<" ">>)[2]),
          "Method", Split(ep, <<" ">>)[1])
      Put(qs2, at, ep, params) ==
        QueriesLoop(eps,
          [st EXCEPT !.schema["Queries"] =
             [qs2 EXCEPT ![at] = Fill(qs2[at], ep, params)]],
          k + 1)
      Lookup(qs, found, qName, ep, params) ==
        IF found # 0 THEN Put(qs, found, ep, params)
        ELSE Put(Append(qs, [Name |-> qName]), Len(qs) + 1, ep, params)
      Named(qName, ep, params) ==
        Lookup(st.schema["Queries"], FirstNamed(st.schema["Queries"], qName),
               qName, ep, params)
      Endpoint(ep, e) ==
        IF ~HasKey(e, "parameters") THEN Raise(st, "KeyError")
        ELSE IF ~HasKey(e.parameters, "query") THEN Raise(st, "KeyError")
        ELSE IF ~HasKey(e.parameters.query, "default") THEN Raise(st, "KeyError")
        ELSE Named(e.parameters.query.default, ep, e.parameters)
  IN  IF st.err # "none" \/ k > Len(eps) THEN st
      ELSE Endpoint(eps[k][1], eps[k][2])

_getQueries(st, db) ==
  IF st.err # "none" THEN st
  ELSE QueriesLoop(getEndpoints(db), Called(st, "GET endpoints"), 1)

\* p in s, for strings
Contains(s, p) == Occurrences(s, p) # {}

\* "while l != "": i += 1; l = res[i]", entered with l = res[i] read: the
\* cursor of the first blank line at or after i, -1 when the list ends
\* before one (IndexError).
RECURSIVE SkipToBlank(_, _)
SkipToBlank(res, i) ==
  IF PastEnd(res, i) THEN -1
  ELSE IF LineAt(res, i) = << >> THEN i
  ELSE SkipToBlank(res, i + 1)

\* roles = l[l.find(":") + 2:].split(", ")
RolesOf(l) == Split(SliceFrom(l, Find(l, <<":">>) + 2), <<",", " ">>)

\* The inner while loop of _getUsers for one user, entered at "l = res[i]";
\* u is [i, err, roles].
RECURSIVE UserLoop(_, _)
UserLoop(res, u) ==
  LET Line(l) ==
        IF l = << >> THEN u
        ELSE IF Contains(l, <<"-", " ", "G", "r", "a", "p", "h", "N", "a", "m", "e", ":",
      " ">> \o graphname)
        THEN IF PastEnd(res, u.i + 1) THEN [u EXCEPT !.err = "IndexError"]
             ELSE UserLoop(res, [u EXCEPT !.i = @ + 2,
                                          !.roles = RolesOf(LineAt(res, u.i + 1))])
        ELSE UserLoop(res, [u EXCEPT !.i = @ + 1])
  IN  IF PastEnd(res, u.i) THEN [u EXCEPT !.err = "IndexError"]
      ELSE Line(LineAt(res, u.i))

\* The outer while loop of _getUsers; w is [i, err, us].
RECURSIVE UsersLoop(_, _)
UsersLoop(res, w) ==
  LET Skipped(blank) ==
        IF blank = -1 THEN [w EXCEPT !.err = "IndexError"]
        ELSE UsersLoop(res, [w EXCEPT !.i = blank + 1])
      User(l, u) ==
        IF u.err # "none" THEN [w EXCEPT !.err = u.err]
        ELSE UsersLoop(res, [w EXCEPT
               !.i = u.i + 1,
               !.us = Append(@, [Name |-> SliceFrom(l, 10), Roles |-> u.roles])])
      Line(l) ==
        IF ~Contains(l, <<"-", " ", "N", "a", "m", "e", ":">>) THEN UsersLoop(res, [w EXCEPT !.i = @ + 1])
        ELSE IF Contains(l, <<"t", "i", "g", "e", "r", "g", "r", "a", "p", "h">>)
        THEN Skipped(SkipToBlank(res, w.i + 1))
        ELSE User(l, UserLoop(res, [i |-> w.i + 1, err |-> "none",
                                    roles |-> << >>]))
  IN  IF w.err # "none" \/ PastEnd(res, w.i) THEN w
      ELSE Line(LineAt(res, w.i))

_getUsers(st, db) ==
  LET Done(st1, w) ==
        IF w.err # "none" THEN Raise(st1, w.err)
        ELSE [st1 EXCEPT !.schema = SetKey(@, "Users", w.us)]
  IN  IF st.err # "none" THEN st
      ELSE Done(Called(st, "gsql SHOW USER"),
                UsersLoop(Split(gsql(db, <<"S", "H", "O", "W", " ", "U", "S", "E", "R">>), NL),
                          [i |-> 0, err |-> "none", us |-> << >>]))

\* The inner while loop of _getGroups for one group, entered at
\* "l = res[i]"; g is [i, err, roles, rule].
RECURSIVE GroupLoop(_, _)
GroupLoop(res, g) ==
  LET Line(l) ==
        IF l = << >> THEN g
        ELSE IF Contains(l, <<"-", " ", "G", "r", "a", "p", "h", "N", "a", "m", "e", ":",
      " ">> \o graphname)
        THEN IF PastEnd(res, g.i + 1) THEN [g EXCEPT !.err = "IndexError"]
             ELSE GroupLoop(res, [g EXCEPT !.i = @ + 2,
                                           !.roles = RolesOf(LineAt(res, g.i + 1))])
        ELSE IF Contains(l, <<"-", " ", "R", "u", "l", "e", ":", " ">>)
        THEN GroupLoop(res, [g EXCEPT !.i = @ + 1,
                                      !.rule = SliceFrom(l, Find(l, <<":">>) + 2)])
        ELSE GroupLoop(res, [g EXCEPT !.i = @ + 1])
  IN  IF PastEnd(res, g.i) THEN [g EXCEPT !.err = "IndexError"]
      ELSE Line(LineAt(res, g.i))

\* The outer while loop of _getGroups; w is [i, err, gs].
RECURSIVE GroupsLoop(_, _)
GroupsLoop(res, w) ==
  LET Group(l, g) ==
        IF g.err # "none" THEN [w EXCEPT !.err = g.err]
        ELSE GroupsLoop(res, [w EXCEPT
               !.i = g.i + 1,
               !.gs = Append(@, [Name |-> SliceFrom(l, 10), Roles |-> g.roles,
                                 Rule |-> g.rule])])
      Line(l) ==
        IF ~Contains(l, <<"-", " ", "N", "a", "m", "e", ":">>) THEN GroupsLoop(res, [w EXCEPT !.i = @ + 1])
        ELSE Group(l, GroupLoop(res, [i |-> w.i + 1, err |-> "none",
                                      roles |-> << >>, rule |-> << >>]))
  IN  IF w.err # "none" \/ PastEnd(res, w.i) THEN w
      ELSE Line(LineAt(res, w.i))

_getGroups(st, db) ==
  LET Done(st1, w) ==
        IF w.err # "none" THEN Raise(st1, w.err)
        ELSE [st1 EXCEPT !.schema = SetKey(@, "Groups", w.gs)]
  IN  IF st.err # "none" THEN st
      ELSE Done(Called(st, "gsql SHOW GROUP"),
                GroupsLoop(Split(gsql(db, <<"S", "H", "O", "W", " ", "G", "R", "O", "U", "P">>), NL),
                           [i |-> 0, err |-> "none", gs |-> << >>]))

\* A fetch that force does not trigger: the base snapshot is kept.
MustFetchUnforced(schema, force) == Falsy(schema)

\* The condition under which getSchema fetches the base snapshot anew.
MustFetch(schema, force) == Falsy(schema) \/ force

\* A build that a part held already does not spare.
MustBuildAlways(schema, key, force) == TRUE

\* The condition under which getSchema (re)builds the part held under key.
MustBuild(schema, key, force) == ~HasKey(schema, key) \/ force

\* if not self.schema or force: self.schema = self._get(...)
getSchemaBase(st, db, force) ==
  IF MustFetch(st.schema, force)
  THEN [schema |-> db.schema, err |-> "none",
        calls |-> Append(st.calls, "GET schema")]
  ELSE st

\* if "UDTs" not in self.schema or force: self._getUDTs()
getSchemaUDTs(st, db, force) ==
  IF st.err = "none" /\ MustBuild(st.schema, "UDTs", force)
  THEN _getUDTs(st, db) ELSE st

\* if "Queries" not in self.schema or force:
\*     self._getSchemaLs(); self._getQueries()
getSchemaQueries(st, db, force) ==
  IF st.err = "none" /\ MustBuild(st.schema, "Queries", force)
  THEN _getQueries(_getSchemaLs(st, db), db) ELSE st

\* if "Users" not in self.schema or force: self._getUsers()
getSchemaUsers(st, db, force) ==
  IF st.err = "none" /\ MustBuild(st.schema, "Users", force)
  THEN _getUsers(st, db) ELSE st

\* if "Groups" not in self.schema or force: self._getGroups()
getSchemaGroups(st, db, force) ==
  IF st.err = "none" /\ MustBuild(st.schema, "Groups", force)
  THEN _getGroups(st, db) ELSE st

\* getSchema(full, force) on the context st: the context after the call.
\* The value returned, when err is "none", is st.schema (the cached object).
getSchema(st, db, full, force) ==
  IF st.err # "none" THEN st
  ELSE IF ~full THEN getSchemaBase(st, db, force)
  ELSE getSchemaGroups(
         getSchemaUsers(
           getSchemaQueries(
             getSchemaUDTs(getSchemaBase(st, db, force), db, force),
             db, force),
           db, force),
         db, force)

\* A fresh context for a handler that starts with the snapshot schema.
Ctx(schema) == [schema |-> schema, err |-> "none", calls |-> << >>]

(***************************************************************************)
(* Edge type lookups, which parseQueryOutput uses.  Each goes through      *)
(* getSchema(force=False) and so may load the snapshot.  The result is     *)
(* [st, val]: the context after the call and, when st.err is "none", the   *)
(* value returned.                                                         *)
(***************************************************************************)

\* getEdgeType(edgeType): the first edge type of that name, {} for none.
getEdgeType(st, db, edgeType) ==
  LET Found(s, k) ==
        [st |-> s, val |-> IF k = 0 THEN EmptyDict ELSE s.schema.EdgeTypes[k]]
      Loaded(s) ==
        IF s.err # "none" THEN [st |-> s, val |-> EmptyDict]
        ELSE IF ~HasKey(s.schema, "EdgeTypes")
        THEN [st |-> Raise(s, "KeyError"), val |-> EmptyDict]
        ELSE Found(s, FirstNamed(s.schema.EdgeTypes, edgeType))
  IN  Loaded(getSchema(st, db, TRUE, FALSE))

\* isDirected(edgeType)
isDirected(st, db, edgeType) ==
  LET Type(r) ==
        IF r.st.err # "none" THEN [st |-> r.st, val |-> FALSE]
        ELSE IF ~HasKey(r.val, "IsDirected")
        THEN [st |-> Raise(r.st, "KeyError"), val |-> FALSE]
        ELSE [st |-> r.st, val |-> r.val.IsDirected]
  IN  Type(getEdgeType(st, db, edgeType))

\* Python's None, where a string is expected.
None == << "None" >>

\* config = self.getEdgeType(edgeType)["Config"] and the lines after it,
\* r being what getEdgeType returns.
getReverseEdgeConfig(r) ==
  IF r.st.err # "none" THEN [st |-> r.st, val |-> None]
  ELSE IF ~HasKey(r.val, "Config")
  THEN [st |-> Raise(r.st, "KeyError"), val |-> None]
  ELSE IF HasKey(r.val.Config, "REVERSE_EDGE")
  THEN [st |-> r.st, val |-> r.val.Config.REVERSE_EDGE]
  ELSE [st |-> r.st, val |-> None]

\* if not self.isDirected(edgeType): return None, and the lines after it,
\* d being what isDirected returns.
getReverseEdgeDirected(d, db, edgeType) ==
  IF d.st.err # "none" THEN [st |-> d.st, val |-> None]
  ELSE IF ~d.val THEN [st |-> d.st, val |-> None]
  ELSE getReverseEdgeConfig(getEdgeType(d.st, db, edgeType))

\* getReverseEdge(edgeType): the reverse edge's name, None when there is none.
getReverseEdge(st, db, edgeType) ==
  getReverseEdgeDirected(isDirected(st, db, edgeType), db, edgeType)

(***************************************************************************)
(* Query results.  The output of a query is a list of frames; a frame is   *)
(* a dict from output labels to payloads, modelled as the sequence of its  *)
(* <<label, payload>> pairs in iteration order.  A payload is              *)
(*   [scalar |-> n]          a number                                      *)
(*   [list |-> <<e1, ...>>]  a list of elements, each                      *)
(*      [dict |-> d]         a record (a function from keys to values)     *)
(*      [int |-> n]          a number                                      *)
(*      [str |-> s]          a string                                      *)
(* parseQueryOutput keeps references to the elements and payloads of its   *)
(* argument and writes to them.  A reference is the position <<f, p, k>>   *)
(* of an element (frame, pair, index) or <<f, p>> of a payload in the      *)
(* argument, and the argument as written so far is carried in the loop     *)
(* state.                                                                  *)
(***************************************************************************)

\* Ordered dicts: sequences of <<key, value>> with distinct keys.
OdHas(od, key) == \E k \in 1..Len(od) : od[k][1] = key

OdIndex(od, key) == CHOOSE k \in 1..Len(od) : od[k][1] = key

\* A lookup that finds the first value of the dict under every key.
OdGetFirst(od, key) == od[1][2]

OdGet(od, key) == od[OdIndex(od, key)][2]

\* A dictionary that puts a new key before the keys it holds.
OdPutFirst(od, key, val) ==
  IF OdHas(od, key) THEN [od EXCEPT ![OdIndex(od, key)][2] = val]
  ELSE << << key, val >> >> \o od

\* od[key] = val: in place for a key od holds, at the end for a new one.
OdPut(od, key, val) ==
  IF OdHas(od, key) THEN [od EXCEPT ![OdIndex(od, key)][2] = val]
  ELSE Append(od, << key, val >>)

\* The element a reference points to.
Deref(out, ref) == out[ref[1]][ref[2]][2].list[ref[3]].dict

\* The argument with the element at ref replaced by d.
Store(out, ref, d) == [out EXCEPT ![ref[1]][ref[2]][2].list[ref[3]].dict = d]

\* A copy that replaces the target's attributes by the source's, which the
\* overlay per attribute rules out.
attCopyWhole(src, trg) == [trg EXCEPT !.attributes = src.attributes]

\* attCopy(src, trg): the target record after the copy.  Each attribute
\* of src is written to trg's attributes, over a value already there.
attCopy(src, trg) ==
  [trg EXCEPT !.attributes =
     [ a \in DOMAIN src.attributes \cup DOMAIN trg.attributes |->
         IF a \in DOMAIN src.attributes THEN src.attributes[a]
         ELSE trg.attributes[a] ]]

\* attCopy raises KeyError when either record has no attributes.
attCopyRaises(src, trg) == ~HasKey(src, "attributes") \/ ~HasKey(trg, "attributes")

\* A count that restarts at 1 with every occurrence.
addOccurrencesOnce(obj, src) ==
  SetKey(SetKey(obj, "x_occurrences", 1), "x_sources", << src >>)

\* addOccurrences(obj, src): the record after the call.
addOccurrences(obj, src) ==
  LET Sources(o1) ==
        IF HasKey(o1, "x_sources")
        THEN [o1 EXCEPT !.x_sources = Append(@, src)]
        ELSE SetKey(o1, "x_sources", << src >>)
  IN  Sources(IF HasKey(obj, "x_occurrences")
              THEN [obj EXCEPT !.x_occurrences = @ + 1]
              ELSE SetKey(obj, "x_occurrences", 1))

\* The loop state of parseQueryOutput:
\*   out  the argument, as written so far
\*   vs   ordered dict: vertex type -> ordered dict: vertex id -> reference
\*   es   ordered dict: edge type -> ordered dict: edge id -> reference
\*   ou   list of [label, ref], ref the reference of the payload
\*   st   the context of the schema lookups
\*   err  the exception raised, "none" for none
ParseStart(output, schema) ==
  [out |-> output, vs |-> << >>, es |-> << >>, ou |-> << >>,
   st |-> Ctx(schema), err |-> "none"]

\* An append that skips a label and value the list holds already.
AppendOtherDistinct(ps, f, p) ==
  IF \E j \in 1..Len(ps.ou) :
       /\ ps.ou[j].label = ps.out[f][p][1]
       /\ ps.out[ps.ou[j].ref[1]][ps.ou[j].ref[2]][2] = ps.out[f][p][2]
  THEN ps
  ELSE [ps EXCEPT !.ou = Append(@, [label |-> ps.out[f][p][1], ref |-> << f, p >>])]

\* ou.append({"label": o2, "value": _o2})
AppendOther(ps, f, p) ==
  [ps EXCEPT !.ou = Append(@, [label |-> ps.out[f][p][1], ref |-> << f, p >>])]

\* The branch "v_type" in o3 for the record at ref, found under label o2.
ParseVertex(ps, ref, o2) ==
  LET Merge(ps1, o3, tmpRef, tmp) ==
        IF attCopyRaises(o3, tmp) THEN [ps1 EXCEPT !.err = "KeyError"]
        ELSE [ps1 EXCEPT !.out = Store(@, tmpRef,
                                       addOccurrences(attCopy(o3, tmp), o2))]
      Place(ps1, o3, vtm, vId) ==
        IF OdHas(vtm, vId)
        THEN Merge(ps1, o3, OdGet(vtm, vId), Deref(ps1.out, OdGet(vtm, vId)))
        ELSE [ps1 EXCEPT !.vs = OdPut(@, o3.v_type, OdPut(vtm, vId, ref)),
                         !.out = Store(@, ref, addOccurrences(o3, o2))]
      Typed(ps1, o3) ==
        IF ~HasKey(o3, "v_id") THEN [ps1 EXCEPT !.err = "KeyError"]
        ELSE Place(ps1, o3, OdGet(ps1.vs, o3.v_type), o3.v_id)
      Record(o3, vType) ==
        Typed([ps EXCEPT !.vs = IF OdHas(@, vType) THEN @
                                ELSE OdPut(@, vType, << >>)], o3)
  IN  Record(Deref(ps.out, ref), Deref(ps.out, ref).v_type)

\* An identity made of the source vertex alone.
EdgeIdFromOnly(o3) == o3.from_type \o <<"(">> \o o3.from_id \o <<")">>

\* from_type + "(" + from_id + ")->" + to_type + "(" + to_id + ")"
EdgeId(o3) ==
  o3.from_type \o <<"(">> \o o3.from_id \o <<")", "-", ">">> \o o3.to_type \o <<"(">> \o o3.to_id \o <<")">>

\* etm = es[eType], which is created when es has no such key.
EdgeTypeMap(ps, eType) ==
  [ps EXCEPT !.es = IF OdHas(@, eType) THEN @ ELSE OdPut(@, eType, << >>)]

\* o3["e_id"] = eId
SetEdgeId(ps, ref) ==
  IF \E key \in {"from_type", "from_id", "to_type", "to_id"} :
       ~HasKey(Deref(ps.out, ref), key)
  THEN [ps EXCEPT !.err = "KeyError"]
  ELSE [ps EXCEPT !.out =
          Store(@, ref, SetKey(Deref(@, ref), "e_id", EdgeId(Deref(@, ref))))]

\* A decoder that attaches no reverse edge.
SetReverseEdgeNever(ps, ref, rev) ==
  IF rev.st.err # "none" THEN [ps EXCEPT !.st = rev.st, !.err = rev.st.err]
  ELSE [ps EXCEPT !.st = rev.st]

\* rev = self.getReverseEdge(eType); if rev: o3["reverse_edge"] = rev
SetReverseEdge(ps, ref, rev) ==
  IF rev.st.err # "none" THEN [ps EXCEPT !.st = rev.st, !.err = rev.st.err]
  ELSE IF rev.val # None /\ rev.val # << >>
  THEN [ps EXCEPT !.st = rev.st,
                  !.out = Store(@, ref, SetKey(Deref(@, ref), "reverse_edge",
                                               rev.val))]
  ELSE [ps EXCEPT !.st = rev.st]

\* if self.isDirected(eType): ..., dir being what isDirected returns
AddReverseEdge(ps, ref, dir, db) ==
  IF ps.err # "none" THEN ps
  ELSE IF dir.st.err # "none"
  THEN [ps EXCEPT !.st = dir.st, !.err = dir.st.err]
  ELSE IF dir.val
  THEN SetReverseEdge(ps, ref,
                      getReverseEdge(dir.st, db, Deref(ps.out, ref).e_type))
  ELSE [ps EXCEPT !.st = dir.st]

\* if eId in etm: tmp = etm[eId]; attCopy(o3, tmp); addOccurrences(tmp, o2)
\* else: addOccurrences(o3, o2); etm[eId] = o3
PlaceEdge(ps, ref, o2) ==
  LET Merge(o3, tmpRef, tmp) ==
        IF attCopyRaises(o3, tmp) THEN [ps EXCEPT !.err = "KeyError"]
        ELSE [ps EXCEPT !.out = Store(@, tmpRef,
                                      addOccurrences(attCopy(o3, tmp), o2))]
      Place(o3, etm, eId) ==
        IF OdHas(etm, eId)
        THEN Merge(o3, OdGet(etm, eId), Deref(ps.out, OdGet(etm, eId)))
        ELSE [ps EXCEPT !.es = OdPut(@, o3.e_type, OdPut(etm, eId, ref)),
                        !.out = Store(@, ref, addOccurrences(o3, o2))]
  IN  IF ps.err # "none" THEN ps
      ELSE Place(Deref(ps.out, ref),
                 OdGet(ps.es, Deref(ps.out, ref).e_type),
                 Deref(ps.out, ref).e_id)

\* The branch "e_type" in o3 for the record at ref, found under label o2.
ParseEdge(ps, ref, o2, db) ==
  PlaceEdge(
    AddReverseEdge(
      SetEdgeId(EdgeTypeMap(ps, Deref(ps.out, ref).e_type), ref),
      ref, isDirected(ps.st, db, Deref(ps.out, ref).e_type), db),
    ref, o2)

\* One pass of "for o3 in _o2" for the element k of the payload <<f, p>>.
ParseElement(ps, f, p, k, db) ==
  IF HasKey(ps.out[f][p][2].list[k], "int") THEN [ps EXCEPT !.err = "TypeError"]
  ELSE IF HasKey(ps.out[f][p][2].list[k], "str")
  THEN IF \/ Contains(ps.out[f][p][2].list[k].str, <<"v", "_", "t", "y", "p", "e">>)
          \/ Contains(ps.out[f][p][2].list[k].str, <<"e", "_", "t", "y", "p", "e">>)
       THEN [ps EXCEPT !.err = "TypeError"]
       ELSE AppendOther(ps, f, p)
  ELSE IF HasKey(ps.out[f][p][2].list[k].dict, "v_type")
  THEN ParseVertex(ps, << f, p, k >>, ps.out[f][p][1])
  ELSE IF HasKey(ps.out[f][p][2].list[k].dict, "e_type")
  THEN ParseEdge(ps, << f, p, k >>, ps.out[f][p][1], db)
  ELSE AppendOther(ps, f, p)

RECURSIVE ParseElements(_, _, _, _, _)
ParseElements(ps, f, p, k, db) ==
  IF ps.err # "none" \/ k > Len(ps.out[f][p][2].list) THEN ps
  ELSE ParseElements(ParseElement(ps, f, p, k, db), f, p, k + 1, db)

\* isinstance(_o2, list) and len(_o2) > 0 and isinstance(_o2[0], dict)
IsListOfDicts(payload) ==
  /\ HasKey(payload, "list")
  /\ Len(payload.list) > 0
  /\ HasKey(payload.list[1], "dict")

\* One pass of "for o2 in o1" for the pair p of the frame f.
ParsePayload(ps, f, p, db) ==
  IF IsListOfDicts(ps.out[f][p][2]) THEN ParseElements(ps, f, p, 1, db)
  ELSE AppendOther(ps, f, p)

RECURSIVE ParseFrame(_, _, _, _)
ParseFrame(ps, f, p, db) ==
  IF ps.err # "none" \/ p > Len(ps.out[f]) THEN ps
  ELSE ParseFrame(ParsePayload(ps, f, p, db), f, p + 1, db)

RECURSIVE ParseFrames(_, _, _)
ParseFrames(ps, f, db) ==
  IF ps.err # "none" \/ f > Len(ps.out) THEN ps
  ELSE ParseFrames(ParseFrame(ps, f, 1, db), f + 1, db)

\* The dict vs (or es) as the caller sees it after the call: the records
\* the references point to, in the argument as finally written.
Resolve(out, od) ==
  [ t \in 1..Len(od) |->
      << od[t][1],
         [ j \in 1..Len(od[t][2]) |->
             << od[t][2][j][1], Deref(out, od[t][2][j][2]) >> ] >> ]

\* The list ou as the caller sees it after the call.
ResolveOther(out, ou) ==
  [ j \in 1..Len(ou) |->
      [label |-> ou[j].label, value |-> out[ou[j].ref[1]][ou[j].ref[2]][2]] ]

\* A result that holds the key output whatever graphOnly is.
MakeRetWithOutput(ps, graphOnly) ==
  LET WithOutput(g) == SetKey(g, "output", ResolveOther(ps.out, ps.ou))
  IN  WithOutput([vertices |-> Resolve(ps.out, ps.vs),
                  edges |-> Resolve(ps.out, ps.es)])

\* ret = {"vertices": vs, "edges": es}; if not graphOnly: ret["output"] = ou
MakeRet(ps, graphOnly) ==
  LET WithOutput(g) ==
        IF graphOnly THEN g
        ELSE SetKey(g, "output", ResolveOther(ps.out, ps.ou))
  IN  WithOutput([vertices |-> Resolve(ps.out, ps.vs),
                  edges |-> Resolve(ps.out, ps.es)])

\* parseQueryOutput(output, graphOnly) with the snapshot schema:
\*   out  the argument after the call      st   the schema context after it
\*   err  the exception raised             ret  the value returned, if none
parseQueryOutput(output, graphOnly, schema, db) ==
  LET Result(ps) ==
        [out |-> ps.out, st |-> ps.st, err |-> ps.err,
         ret |-> IF ps.err = "none" THEN MakeRet(ps, graphOnly) ELSE EmptyDict,
         ou  |-> ResolveOther(ps.out, ps.ou)]
  IN  Result(ParseFrames(ParseStart(output, schema), 1, db))

(***************************************************************************)
(* The accessors of the snapshot.  Each takes the context [schema, err,    *)
(* calls] and returns [st, val]: the context after the call and the value  *)
(* returned, None when the call raised.                                    *)
(***************************************************************************)

\* getUDTs():
\*   if "UDTs" not in self.schema: self.getSchema()
\*   for udt in self.schema["UDTs"]: ret.append(udt["name"])
\* ("in" raises TypeError on the None the constructor leaves)
getUDTs(st, db) ==
  LET Names(s) ==
        IF s.err # "none" THEN [st |-> s, val |-> None]
        ELSE IF \E k \in 1..Len(s.schema.UDTs) : ~HasKey(s.schema.UDTs[k], "name")
        THEN [st |-> Raise(s, "KeyError"), val |-> None]
        ELSE [st |-> s,
              val |-> [ k \in 1..Len(s.schema.UDTs) |-> s.schema.UDTs[k].name ]]
  IN  IF "None" \in DOMAIN st.schema
      THEN [st |-> Raise(st, "TypeError"), val |-> None]
      ELSE IF ~HasKey(st.schema, "UDTs")
      THEN Names(getSchema(st, db, TRUE, FALSE))
      ELSE Names(st)

\* getUDT(udtName):
\*   if "UDTs" not in self.schema: self.getSchema()
\*   for udt in self.schema["UDTs"]:
\*     if udt["name"] == udtName: return udt["fields"]
\*   return []
getUDT(st, db, udtName) ==
  LET RECURSIVE Loop(_, _)
      Loop(s, k) ==
        IF s.err # "none" THEN [st |-> s, val |-> None]
        ELSE IF k > Len(s.schema.UDTs) THEN [st |-> s, val |-> << >>]
        ELSE IF ~HasKey(s.schema.UDTs[k], "name")
        THEN [st |-> Raise(s, "KeyError"), val |-> None]
        ELSE IF s.schema.UDTs[k].name # udtName THEN Loop(s, k + 1)
        ELSE IF ~HasKey(s.schema.UDTs[k], "fields")
        THEN [st |-> Raise(s, "KeyError"), val |-> None]
        ELSE [st |-> s, val |-> s.schema.UDTs[k].fields]
  IN  IF "None" \in DOMAIN st.schema
      THEN [st |-> Raise(st, "TypeError"), val |-> None]
      ELSE IF ~HasKey(st.schema, "UDTs")
      THEN Loop(getSchema(st, db, TRUE, FALSE), 1)
      ELSE Loop(st, 1)

\* A source vertex type taken from the first pair alone.
getEdgeSourceVertexTypeFirstPair(st, db, edgeType) ==
  LET Details(r) ==
        IF r.st.err # "none" THEN [st |-> r.st, val |-> None]
        ELSE IF ~HasKey(r.val, "FromVertexTypeName")
        THEN [st |-> Raise(r.st, "KeyError"), val |-> None]
        ELSE IF r.val.FromVertexTypeName # <<"*">>
        THEN [st |-> r.st, val |-> [str |-> r.val.FromVertexTypeName]]
        ELSE IF HasKey(r.val, "EdgePairs")
        THEN [st |-> r.st, val |-> [set |-> { r.val.EdgePairs[1].From }]]
        ELSE [st |-> r.st, val |-> [str |-> <<"*">>]]
  IN  Details(getEdgeType(st, db, edgeType))

\* getEdgeSourceVertexType(edgeType); the value is [str |-> name] for a
\* string and [set |-> names] for a set.
getEdgeSourceVertexType(st, db, edgeType) ==
  LET Details(r) ==
        IF r.st.err # "none" THEN [st |-> r.st, val |-> None]
        ELSE IF ~HasKey(r.val, "FromVertexTypeName")
        THEN [st |-> Raise(r.st, "KeyError"), val |-> None]
        ELSE IF r.val.FromVertexTypeName # <<"*">>
        THEN [st |-> r.st, val |-> [str |-> r.val.FromVertexTypeName]]
        ELSE IF HasKey(r.val, "EdgePairs")
        THEN IF \E k \in 1..Len(r.val.EdgePairs) : ~HasKey(r.val.EdgePairs[k], "From")
             THEN [st |-> Raise(r.st, "KeyError"), val |-> None]
             ELSE [st |-> r.st,
                   val |-> [set |-> { r.val.EdgePairs[k].From :
                                        k \in 1..Len(r.val.EdgePairs) }]]
        ELSE [st |-> r.st, val |-> [str |-> <<"*">>]]
  IN  Details(getEdgeType(st, db, edgeType))

\* getEdgeTargetVertexType(edgeType)
getEdgeTargetVertexType(st, db, edgeType) ==
  LET Details(r) ==
        IF r.st.err # "none" THEN [st |-> r.st, val |-> None]
        ELSE IF ~HasKey(r.val, "ToVertexTypeName")
        THEN [st |-> Raise(r.st, "KeyError"), val |-> None]
        ELSE IF r.val.ToVertexTypeName # <<"*">>
        THEN [st |-> r.st, val |-> [str |-> r.val.ToVertexTypeName]]
        ELSE IF HasKey(r.val, "EdgePairs")
        THEN IF \E k \in 1..Len(r.val.EdgePairs) : ~HasKey(r.val.EdgePairs[k], "To")
             THEN [st |-> Raise(r.st, "KeyError"), val |-> None]
             ELSE [st |-> r.st,
                   val |-> [set |-> { r.val.EdgePairs[k].To :
                                        k \in 1..Len(r.val.EdgePairs) }]]
        ELSE [st |-> r.st, val |-> [str |-> <<"*">>]]
  IN  Details(getEdgeType(st, db, edgeType))

\* The names of the records of self.getSchema(force=force)[key], s being
\* what getSchema leaves: the loop "for vt in ...: ret.append(vt["Name"])".
NamesOf(s, key) ==
  IF s.err # "none" THEN [st |-> s, val |-> << >>]
  ELSE IF ~HasKey(s.schema, key) THEN [st |-> Raise(s, "KeyError"), val |-> << >>]
  ELSE [st |-> s, val |-> [ k \in 1..Len(s.schema[key]) |-> s.schema[key][k].Name ]]

\* Vertex type names as they would be if the schema were always fetched.
getVertexTypesForced(st, db, force) ==
  NamesOf(getSchema(st, db, TRUE, TRUE), "VertexTypes")

\* getVertexTypes(force)
getVertexTypes(st, db, force) ==
  NamesOf(getSchema(st, db, TRUE, force), "VertexTypes")

\* getEdgeTypes(force)
getEdgeTypes(st, db, force) ==
  NamesOf(getSchema(st, db, TRUE, force), "EdgeTypes")

\* getVertexType(vertexType, force): the first vertex type of that name,
\* {} for none.
getVertexType(st, db, vertexType, force) ==
  LET Found(s, k) ==
        [st |-> s, val |-> IF k = 0 THEN EmptyDict ELSE s.schema.VertexTypes[k]]
      Loaded(s) ==
        IF s.err # "none" THEN [st |-> s, val |-> EmptyDict]
        ELSE IF ~HasKey(s.schema, "VertexTypes")
        THEN [st |-> Raise(s, "KeyError"), val |-> EmptyDict]
        ELSE Found(s, FirstNamed(s.schema.VertexTypes, vertexType))
  IN  Loaded(getSchema(st, db, TRUE, force))

\* getStatistics(seconds, segment).  An argument is [type |-> "int", val |-> n],
\* [type |-> "str", val |-> s] or, for an argument left out, which takes
\* the default 10, [type |-> "missing", val |-> 0].  type(v) is a class
\* object, which equals no string.  The value the call returns is the
\* server's answer, which here tells the path and the query string it was
\* asked with.
getStatistics(st, db, seconds, segment) ==
  LET Digits == << "0", "1", "2", "3", "4", "5", "6", "7", "8", "9" >>
      RECURSIVE Str(_)
      Str(n) == IF n < 10 THEN << Digits[n + 1] >>
                ELSE Str(n \div 10) \o << Digits[(n % 10) + 1] >>
      TypeOf(v) == [class |-> v.type]
      Not(v) == IF v.type = "int" THEN v.val = 0 ELSE v.val = << >>
      Arg(v) == IF v.type = "missing" THEN [type |-> "int", val |-> 10] ELSE v
      Checked(v, most) ==
        IF Not(v) \/ TypeOf(v) # [str |-> <<"i", "n", "t">>] THEN 10
        ELSE Max(Min(v.val, 0), most)
      Url(s, g) ==
        <<"/", "s", "t", "a", "t", "i", "s", "t", "i", "c", "s", "/">> \o graphname \o <<"?", "s", "e", "c", "o", "n", "d", "s", "=">> \o Str(s)
          \o <<"&", "s", "e", "g", "m", "e", "n", "t", "=">> \o Str(g)
  IN  [st |-> Called(st, "GET statistics"),
       val |-> [url |-> Url(Checked(Arg(seconds), 60), Checked(Arg(segment), 100))]]

(***************************************************************************)
(* The inputs of parseQueryOutput the model draws from.                    *)
(***************************************************************************)

\* The number of elements a query result holds at most, a payload without
\* elements counting as one.
MaxElems == 2

\* The number of parseQueryOutput calls made on one query result.
MaxCalls == 2

Labels == { <<"r", "e", "s", "u", "l", "t">>, <<"o", "t", "h", "e", "r">> }

VertexElem(vType, vId, attributes) ==
  [dict |-> [v_type |-> vType, v_id |-> vId, attributes |-> attributes]]

EdgeElem(eType, fromId, toId, attributes) ==
  [dict |-> [e_type |-> eType, from_type |-> <<"P">>, from_id |-> fromId,
             to_type |-> <<"P">>, to_id |-> toId, directed |-> TRUE,
             attributes |-> attributes]]

\* Vertices: Person 7 seen with different attribute sets, another id of
\* the type, and the same id under another type.
VertexPool ==
  { VertexElem(<<"P">>, <<"7">>, [a |-> 1]),
    VertexElem(<<"P">>, <<"7">>, [a |-> 2, b |-> 1]),
    VertexElem(<<"P">>, <<"8">>, [b |-> 2]),
    VertexElem(<<"Q">>, <<"7">>, [a |-> 3]) }

\* Edges: one composite identity seen with different attribute sets and
\* under other types, and another identity of the type.  K is directed
\* with a reverse edge, F is undirected, D is directed without a reverse
\* edge.
EdgePool ==
  { EdgeElem(<<"K">>, <<"7">>, <<"8">>, [w |-> 1]),
    EdgeElem(<<"K">>, <<"7">>, <<"8">>, [w |-> 2, c |-> 1]),
    EdgeElem(<<"K">>, <<"8">>, <<"7">>, [w |-> 3]),
    EdgeElem(<<"F">>, <<"7">>, <<"8">>, [w |-> 4]),
    EdgeElem(<<"D">>, <<"7">>, <<"8">>, [w |-> 5]) }

\* Elements of neither shape, beside a vertex: a record without v_type and
\* e_type, a record with v_type and without v_id, a number.
OtherPool ==
  { VertexElem(<<"P">>, <<"7">>, [a |-> 1]),
    [dict |-> [x |-> 1]],
    [dict |-> [v_type |-> <<"P">>]],
    [int |-> 5] }

\* The payloads without elements: a number.
EmptyPayloads == { [scalar |-> 5] }

\* The sequences of exactly n elements of pool.
ListsOf(pool, n) == [1..n -> pool]

\* The payloads that count n: lists of n elements of pool and, for n = 1
\* and a pool that has them, the payloads without elements.
PayloadsOf(pool, n, empties) ==
  { [list |-> s] : s \in ListsOf(pool, n) } \cup (IF n = 1 THEN empties ELSE {})

\* The frames that count n: one payload under either label, or a payload
\* under each.
FramesOf(pool, n, empties) ==
  { << << l, v >> >> : l \in Labels, v \in PayloadsOf(pool, n, empties) }
  \cup UNION { { << << <<"r", "e", "s", "u", "l", "t">>, v1 >>, << <<"o", "t", "h", "e", "r">>, v2 >> >> :
                   v1 \in PayloadsOf(pool, k, empties),
                   v2 \in PayloadsOf(pool, n - k, empties) } : k \in 1..(n - 1) }

\* The query results that count exactly n.
RECURSIVE OutputsOf(_, _, _)
OutputsOf(pool, n, empties) ==
  IF n = 0 THEN { << >> }
  ELSE UNION { { << f >> \o rest : f \in FramesOf(pool, k, empties),
                                   rest \in OutputsOf(pool, n - k, empties) } :
               k \in 1..n }

\* Two identities of one vertex type and two of one edge type.
VertexPair == { VertexElem(<<"P">>, <<"7">>, [a |-> 1]), VertexElem(<<"P">>, <<"8">>, [b |-> 2]) }

EdgePair == { EdgeElem(<<"K">>, <<"7">>, <<"8">>, [w |-> 1]), EdgeElem(<<"K">>, <<"8">>, <<"7">>, [w |-> 3]) }

\* The query results of one list that is one element longer than MaxElems,
\* of two identities of a type: an identity can be seen again after another
\* one was discovered.
LongOutputs ==
  { << << << <<"r", "e", "s", "u", "l", "t">>, [list |-> s] >> >> >> :
      s \in ListsOf(VertexPair, MaxElems + 1) \cup ListsOf(EdgePair, MaxElems + 1) }

\* The query results of the model: of one of the three pools, counting at
\* most MaxElems, and the long lists.
Outputs ==
  LongOutputs
  \cup UNION { OutputsOf(VertexPool, n, {}) \cup OutputsOf(EdgePool, n, {})
            \cup OutputsOf(OtherPool, n, EmptyPayloads) : n \in 1..MaxElems }

(***************************************************************************)
(* The state machine.                                                      *)
(*   db      the database as it is now                                     *)
(*   schema  self.schema, the cached snapshot                              *)
(*   output  the query result the caller holds; parseQueryOutput is called *)
(*           with this object and writes to it                             *)
(*   op      the last call: its name and arguments and the values of       *)
(*           schema, db and output when it started                         *)
(*   ret     the value the last call returned (when err is "none")         *)
(*   err     the exception the last call raised, "none" for none           *)
(*   calls   the requests the last call sent to the server                 *)
(*   ncalls  the number of parseQueryOutput calls made on output           *)
(***************************************************************************)
VARIABLES db, schema, output, op, ret, err, calls, ncalls

vars == << db, schema, output, op, ret, err, calls, ncalls >>

NoOp == [name |-> "none"]

InitCommon ==
  /\ schema = NoSchema
  /\ op = NoOp
  /\ ret = EmptyDict
  /\ err = "none"
  /\ calls = << >>
  /\ ncalls = 0

\* getSchema(full, force)
GetSchema(full, force) ==
  LET Returns(r) ==
        /\ schema' = r.schema
        /\ err' = r.err
        /\ calls' = r.calls
        /\ ret' = IF r.err = "none" THEN r.schema ELSE EmptyDict
  IN  /\ Returns(getSchema(Ctx(schema), db, full, force))
      /\ op' = [name |-> "getSchema", full |-> full, force |-> force,
                schema |-> schema, db |-> db]
      /\ UNCHANGED << db, output, ncalls >>

\* The schema of the database changes (by someone's DDL).
SchemaChange(newDb) ==
  /\ newDb # db
  /\ db' = newDb
  /\ UNCHANGED << schema, output, op, ret, err, calls, ncalls >>

\* parseQueryOutput(output, graphOnly)
ParseQueryOutput(graphOnly) ==
  LET Returns(r) ==
        /\ output' = r.out
        /\ schema' = r.st.schema
        /\ calls' = r.st.calls
        /\ err' = r.err
        /\ ret' = r.ret
        /\ op' = [name |-> "parseQueryOutput", graphOnly |-> graphOnly,
                  input |-> output, schema |-> schema, ou |-> r.ou]
  IN  /\ ncalls < MaxCalls
      /\ ncalls' = ncalls + 1
      /\ Returns(parseQueryOutput(output, graphOnly, schema, db))
      /\ UNCHANGED db

\* The snapshot machine: getSchema calls on one connection, in any order,
\* against a database whose schema may change in between.
InitSchema ==
  /\ InitCommon
  /\ db \in Databases
  /\ output = << >>

NextSchema ==
  \/ \E full \in BOOLEAN, force \in BOOLEAN : GetSchema(full, force)
  \/ \E newDb \in Databases : SchemaChange(newDb)

SpecSchema == InitSchema /\ [][NextSchema]_vars

\* The decoder machine: a query result is received and parseQueryOutput is
\* called on it, up to MaxCalls times.
InitParse ==
  /\ InitCommon
  /\ db = DbD
  /\ output \in Outputs

NextParse == \E graphOnly \in BOOLEAN : ParseQueryOutput(graphOnly)

SpecParse == InitParse /\ [][NextParse]_vars

(***************************************************************************)
(* The accessor machine: getSchema and the accessors of the snapshot are   *)
(* called on one connection, in any order, against a database whose schema *)
(* may change in between.                                                  *)
(***************************************************************************)

\* What an accessor call leaves: r is the [st, val] it returned, call the
\* record of its name and arguments.
Accessed(r, call) ==
  /\ schema' = r.st.schema
  /\ err' = r.st.err
  /\ calls' = r.st.calls
  /\ ret' = r.val
  /\ op' = call @@ [schema |-> schema, db |-> db]

\* getUDTs()
GetUDTs ==
  /\ Accessed(getUDTs(Ctx(schema), db), [name |-> "getUDTs"])
  /\ UNCHANGED << db, output, ncalls >>

\* getUDT(udtName)
GetUDT(udtName) ==
  /\ Accessed(getUDT(Ctx(schema), db, udtName),
              [name |-> "getUDT", arg |-> udtName])
  /\ UNCHANGED << db, output, ncalls >>

\* getEdgeSourceVertexType(edgeType)
GetEdgeSourceVertexType(edgeType) ==
  /\ Accessed(getEdgeSourceVertexType(Ctx(schema), db, edgeType),
              [name |-> "getEdgeSourceVertexType", arg |-> edgeType])
  /\ UNCHANGED << db, output, ncalls >>

\* getEdgeTargetVertexType(edgeType)
GetEdgeTargetVertexType(edgeType) ==
  /\ Accessed(getEdgeTargetVertexType(Ctx(schema), db, edgeType),
              [name |-> "getEdgeTargetVertexType", arg |-> edgeType])
  /\ UNCHANGED << db, output, ncalls >>

\* getVertexTypes(force)
GetVertexTypes(force) ==
  /\ Accessed(getVertexTypes(Ctx(schema), db, force),
              [name |-> "getVertexTypes", force |-> force])
  /\ UNCHANGED << db, output, ncalls >>

\* getVertexType(vertexType, force)
GetVertexType(vertexType, force) ==
  /\ Accessed(getVertexType(Ctx(schema), db, vertexType, force),
              [name |-> "getVertexType", arg |-> vertexType, force |-> force])
  /\ UNCHANGED << db, output, ncalls >>

\* getEdgeTypes(force)
GetEdgeTypes(force) ==
  /\ Accessed(getEdgeTypes(Ctx(schema), db, force),
              [name |-> "getEdgeTypes", force |-> force])
  /\ UNCHANGED << db, output, ncalls >>

\* getEdgeType(edgeType)
GetEdgeType(edgeType) ==
  /\ Accessed(getEdgeType(Ctx(schema), db, edgeType),
              [name |-> "getEdgeType", arg |-> edgeType, force |-> FALSE])
  /\ UNCHANGED << db, output, ncalls >>

\* isDirected(edgeType)
IsDirected(edgeType) ==
  /\ Accessed(isDirected(Ctx(schema), db, edgeType),
              [name |-> "isDirected", arg |-> edgeType])
  /\ UNCHANGED << db, output, ncalls >>

\* getReverseEdge(edgeType)
GetReverseEdge(edgeType) ==
  /\ Accessed(getReverseEdge(Ctx(schema), db, edgeType),
              [name |-> "getReverseEdge", arg |-> edgeType])
  /\ UNCHANGED << db, output, ncalls >>

\* getStatistics(seconds, segment)
GetStatistics(seconds, segment) ==
  /\ Accessed(getStatistics(Ctx(schema), db, seconds, segment),
              [name |-> "getStatistics", seconds |-> seconds, segment |-> segment])
  /\ UNCHANGED << db, output, ncalls >>

\* The accessor machine starts on either database, with a query result of
\* an edge and a vertex at hand.
InitAccess ==
  /\ InitCommon
  /\ db \in { DbA, DbB }
  /\ output = << << << <<"r", "e", "s", "u", "l", "t">>,
                        [list |-> << EdgeElem(<<"K">>, <<"7">>, <<"8">>, [w |-> 1]),
                                     VertexElem(<<"P">>, <<"7">>, [a |-> 1]) >>] >> >> >>

NextAccess ==
  \/ \E full \in BOOLEAN, force \in BOOLEAN : GetSchema(full, force)
  \/ \E newDb \in { DbA, DbB } : SchemaChange(newDb)
  \/ GetUDTs
  \/ \E udtName \in { <<"T", "1">>, <<"T", "9">> } : GetUDT(udtName)
  \/ \E edgeType \in { <<"K">>, <<"D">>, <<"W">>, <<"X">> } : GetEdgeSourceVertexType(edgeType)
  \/ \E edgeType \in { <<"K">>, <<"D">>, <<"W">>, <<"X">> } : GetEdgeTargetVertexType(edgeType)
  \/ \E seconds \in { [type |-> "missing", val |-> 0], [type |-> "int", val |-> 1],
                       [type |-> "int", val |-> 10], [type |-> "int", val |-> 60],
                       [type |-> "str", val |-> <<"5">>] },
        segment \in { [type |-> "missing", val |-> 0], [type |-> "int", val |-> 1],
                       [type |-> "int", val |-> 100] } :
       GetStatistics(seconds, segment)

SpecAccess == InitAccess /\ [][NextAccess]_vars

\* The reader machine: getSchema, the accessors of vertex and edge types
\* and parseQueryOutput are called on one connection, in any order, against
\* a database whose schema may change in between.
NextFrame ==
  \/ \E full \in BOOLEAN, force \in BOOLEAN : GetSchema(full, force)
  \/ \E newDb \in { DbA, DbB } : SchemaChange(newDb)
  \/ \E force \in BOOLEAN : GetVertexTypes(force)
  \/ \E vertexType \in { <<"P">>, <<"Z">> }, force \in BOOLEAN :
       GetVertexType(vertexType, force)
  \/ \E force \in BOOLEAN : GetEdgeTypes(force)
  \/ \E edgeType \in { <<"K">>, <<"W">> } : GetEdgeType(edgeType)
  \/ \E edgeType \in { <<"K">>, <<"W">> } : IsDirected(edgeType)
  \/ \E edgeType \in { <<"K">>, <<"W">> } : GetReverseEdge(edgeType)
  \/ \E graphOnly \in BOOLEAN : ParseQueryOutput(graphOnly)

SpecFrame == InitAccess /\ [][NextFrame]_vars

(***************************************************************************)
(* The text parse machine: the outer loop of _getSchemaLs, one pass per    *)
(* step.  While the parse runs, op holds its position:                     *)
(*   res     the lines of the ls text                                      *)
(*   i       the cursor, before the pass to come                           *)
(*   from    the cursor before the pass just made, -1 before the first     *)
(*   schema  self.schema before the pass just made                         *)
(*   base    self.schema when _getSchemaLs was entered                     *)
(***************************************************************************)

\* The databases of the parse machine: those of the schema machine and
\* three with the schema of DbD and the ls texts
\*
\*   ---- Graph g                   Vertex Types:                  Indexes: none
\*   Vertex Types:                    - VERTEX Z(PRIMARY_ID id STRING)   - Graph g(P:v)
\*   Edge Types:                    Edge Types:
\*                                    - DIRECTED EDGE Y(FROM P, TO Q)
\*   Graphs:
\*   Jobs:                          User defined tuples:
\*     - CREATE SCHEMA_CHANGE JOB c   - T9 (a INT)
\*
\*                                  Indexes:
\*                                    - i3:Z(k)
\*
LsDatabases ==
  Databases \cup
  { [DbD EXCEPT !.ls = Join(<< <<"-", "-", "-", "-", " ", "G", "r", "a", "p", "h", " ", "g">>, <<"V", "e", "r", "t", "e", "x", " ", "T", "y", "p", "e", "s",
      ":">>, <<"E", "d", "g", "e", " ", "T", "y", "p", "e", "s", ":">>,
                              << >>, <<"G", "r", "a", "p", "h", "s", ":">>, <<"J", "o", "b", "s", ":">>,
                              <<" ", " ", "-", " ", "C", "R", "E", "A", "T", "E", " ", "S",
      "C", "H", "E", "M", "A", "_", "C", "H", "A", "N", "G", "E",
      " ", "J", "O", "B", " ", "c">>, << >>, << >> >>, NL)],
    [DbD EXCEPT !.ls = Join(<< <<"V", "e", "r", "t", "e", "x", " ", "T", "y", "p", "e", "s",
      ":">>,
                              <<" ", " ", "-", " ", "V", "E", "R", "T", "E", "X", " ", "Z",
      "(", "P", "R", "I", "M", "A", "R", "Y", "_", "I", "D", " ",
      "i", "d", " ", "S", "T", "R", "I", "N", "G", ")">>,
                              <<"E", "d", "g", "e", " ", "T", "y", "p", "e", "s", ":">>,
                              <<" ", " ", "-", " ", "D", "I", "R", "E", "C", "T", "E", "D",
      " ", "E", "D", "G", "E", " ", "Y", "(", "F", "R", "O", "M",
      " ", "P", ",", " ", "T", "O", " ", "Q", ")">>, << >>,
                              <<"U", "s", "e", "r", " ", "d", "e", "f", "i", "n", "e", "d",
      " ", "t", "u", "p", "l", "e", "s", ":">>, <<" ", " ", "-", " ", "T", "9", " ", "(", "a", " ", "I", "N",
      "T", ")">>, << >>,
                              <<"I", "n", "d", "e", "x", "e", "s", ":">>, <<" ", " ", "-", " ", "i", "3", ":", "Z", "(", "k", ")">>, << >>, << >> >>, NL)],
    [DbD EXCEPT !.ls = Join(<< <<"I", "n", "d", "e", "x", "e", "s", ":", " ", "n", "o", "n",
      "e">>, <<" ", " ", "-", " ", "G", "r", "a", "p", "h", " ", "g", "(",
      "P", ":", "v", ")">>,
                              << >>, << >> >>, NL)] }

\* getSchema has fetched self.schema and the tuple types and enters
\* _getSchemaLs: res = self.gsql('ls'), the lists are created,
\* res = res.split("\n"), i = 0.
LsStart ==
  LET Entered(st) ==
        /\ schema' = LsEnsureLists(st.schema, 1)
        /\ err' = st.err
        /\ calls' = Append(st.calls, "gsql ls")
        /\ op' = [name |-> "_getSchemaLs", res |-> Split(gsql(db, <<"l", "s">>), NL),
                  i |-> 0, from |-> -1, schema |-> st.schema, base |-> st.schema]
  IN  /\ op.name = "none"
      /\ Entered(_getUDTs(Ctx(db.schema), db))
      /\ UNCHANGED << db, output, ret, ncalls >>

\* One pass of "while i < len(res): ...; i += 1".
LsPass ==
  LET Passed(next) ==
        /\ schema' = next.schema
        /\ err' = next.err
        /\ calls' = next.calls
        /\ op' = [op EXCEPT !.from = op.i, !.schema = schema,
                            !.i = IF next.err = "none" THEN next.i + 1 ELSE next.i]
  IN  /\ op.name = "_getSchemaLs"
      /\ err = "none"
      /\ ~PastEnd(op.res, op.i)
      /\ Passed(LsDispatch(op.res, [schema |-> schema, err |-> err,
                                    calls |-> calls, i |-> op.i], db))
      /\ UNCHANGED << db, output, ret, ncalls >>

\* The parse machine starts on any of its databases.
InitLs ==
  /\ InitCommon
  /\ db \in LsDatabases
  /\ output = << >>

NextLs ==
  \/ LsStart
  \/ LsPass
  \/ \E newDb \in LsDatabases : SchemaChange(newDb)

SpecLs == InitLs /\ [][NextLs]_vars

(***************************************************************************)
(* Properties of parseQueryOutput, stated on the state its call leaves:    *)
(* op.input is the query result as the call received it, ret the           *)
(* dictionary it returned, op.ou the list ou it built.                     *)
(***************************************************************************)

\* The last call was parseQueryOutput.
Parsed == op.name = "parseQueryOutput"

\* The last call was parseQueryOutput and it returned a dictionary.
Returned == Parsed /\ err = "none"

\* The positions <<f, p>> of the payloads of the query result o.
PayloadRefs(o) ==
  UNION { { << f, p >> : p \in 1..Len(o[f]) } : f \in 1..Len(o) }

PayloadAt(o, r) == o[r[1]][r[2]][2]

LabelAt(o, r) == o[r[1]][r[2]][1]

IsList(payload) == "list" \in DOMAIN payload

\* The positions <<f, p, k>> of the elements of the list payloads of o.
ElemRefs(o) ==
  UNION { { << r[1], r[2], k >> : k \in 1..Len(PayloadAt(o, r).list) } :
          r \in { q \in PayloadRefs(o) : IsList(PayloadAt(o, q)) } }

ElemAt(o, r) == o[r[1]][r[2]][2].list[r[3]]

IsRecord(e) == "dict" \in DOMAIN e

\* A list payload whose first element is a record.
StartsWithRecord(payload) ==
  IsList(payload) /\ Len(payload.list) > 0 /\ IsRecord(payload.list[1])

\* The positions of the elements of the lists that start with a record.
RecordListRefs(o) == { r \in ElemRefs(o) : StartsWithRecord(PayloadAt(o, r)) }

\* The vertex shape: a record with v_type and v_id.
IsVertex(e) ==
  IsRecord(e) /\ "v_type" \in DOMAIN e.dict /\ "v_id" \in DOMAIN e.dict

\* The edge shape: a record with e_type (and without v_type).
IsEdge(e) ==
  IsRecord(e) /\ "e_type" \in DOMAIN e.dict /\ "v_type" \notin DOMAIN e.dict

\* An element of neither shape.
IsNeither(e) == ~IsVertex(e) /\ ~IsEdge(e)

\* from_type(from_id)->to_type(to_id), written out independently of the
\* decoder.
CompositeId(d) ==
  d.from_type \o << "(" >> \o d.from_id \o << ")", "-", ">" >>
    \o d.to_type \o << "(" >> \o d.to_id \o << ")" >>

\* r comes before q in iteration order.
RefBefore(r, q) ==
  \/ r[1] < q[1]
  \/ r[1] = q[1] /\ r[2] < q[2]
  \/ r[1] = q[1] /\ r[2] = q[2] /\ r[3] < q[3]

FirstRef(S) == CHOOSE r \in S : \A q \in S \ {r} : RefBefore(r, q)

LastRef(S) == CHOOSE r \in S : \A q \in S \ {r} : RefBefore(q, r)

\* The references of S as a sequence in iteration order.
RECURSIVE InOrder(_)
InOrder(S) ==
  IF S = {} THEN << >> ELSE << FirstRef(S) >> \o InOrder(S \ {FirstRef(S)})

\* The positions <<a, b>> of the entries of the two-level dict od.
EntryRefs(od) ==
  UNION { { << a, b >> : b \in 1..Len(od[a][2]) } : a \in 1..Len(od) }

EntryType(od, ab) == od[ab[1]][1]

EntryId(od, ab) == od[ab[1]][2][ab[2]][1]

EntryRecord(od, ab) == od[ab[1]][2][ab[2]][2]

\* The positions of the entries od[t][i]: at most one in a dict.
EntriesAt(od, t, i) ==
  { ab \in EntryRefs(od) : EntryType(od, ab) = t /\ EntryId(od, ab) = i }

\* The positions in S of the vertex elements of o with type t and id i.
VertexRefsIn(o, S, t, i) ==
  { r \in S : /\ IsVertex(ElemAt(o, r))
              /\ ElemAt(o, r).dict.v_type = t
              /\ ElemAt(o, r).dict.v_id = i }

\* The positions in S of the edge elements of o with type t and composite
\* identity i.
EdgeRefsIn(o, S, t, i) ==
  { r \in S : /\ IsEdge(ElemAt(o, r))
              /\ ElemAt(o, r).dict.e_type = t
              /\ CompositeId(ElemAt(o, r).dict) = i }

\* The frames in which the elements at S stand.
FramesIn(S) == { r[1] : r \in S }

\* The x_occurrences the record d carries, 0 when it carries none.
Carried(d) == IF "x_occurrences" \in DOMAIN d THEN d.x_occurrences ELSE 0

\* The x_sources the record d carries, empty when it carries none.
CarriedSources(d) == IF "x_sources" \in DOMAIN d THEN d.x_sources ELSE << >>

\* C1 as stated: every element with v_type and v_id has exactly one entry
\* vertices[v_type][v_id], whose x_occurrences is the number of frames in
\* which that (v_type, v_id) appeared.
C1_OccurrencesAreFrames ==
  Returned =>
    \A r \in ElemRefs(op.input) :
      IsVertex(ElemAt(op.input, r)) =>
        LET t == ElemAt(op.input, r).dict.v_type
            i == ElemAt(op.input, r).dict.v_id
            E == EntriesAt(ret.vertices, t, i)
        IN  /\ Cardinality(E) = 1
            /\ \A ab \in E :
                 EntryRecord(ret.vertices, ab).x_occurrences
                   = Cardinality(FramesIn(VertexRefsIn(op.input, ElemRefs(op.input), t, i)))

\* C1, amended: in the dictionary parseQueryOutput returns, every element
\* with v_type and v_id that stands in a list starting with a record has
\* exactly one entry vertices[v_type][v_id], and that entry's x_occurrences
\* is the number of such elements with that (v_type, v_id), two in one
\* frame counting twice, added to the x_occurrences the first of them
\* carried when the call started.
C1_OccurrencesAreElements ==
  Returned =>
    \A r \in RecordListRefs(op.input) :
      IsVertex(ElemAt(op.input, r)) =>
        LET t == ElemAt(op.input, r).dict.v_type
            i == ElemAt(op.input, r).dict.v_id
            E == EntriesAt(ret.vertices, t, i)
            S == VertexRefsIn(op.input, RecordListRefs(op.input), t, i)
        IN  /\ Cardinality(E) = 1
            /\ \A ab \in E :
                 EntryRecord(ret.vertices, ab).x_occurrences
                   = Cardinality(S) + Carried(ElemAt(op.input, FirstRef(S)).dict)

\* A vertex that stands twice in one frame of a fresh query result, and
\* is returned with x_occurrences 2.
C1_Witness ==
  /\ Returned
  /\ ncalls = 1
  /\ \E ab \in EntryRefs(ret.vertices) :
       LET S == VertexRefsIn(op.input, RecordListRefs(op.input),
                             EntryType(ret.vertices, ab), EntryId(ret.vertices, ab))
       IN  /\ Cardinality(S) = 2
           /\ Cardinality(FramesIn(S)) = 1
           /\ EntryRecord(ret.vertices, ab).x_occurrences = 2

\* The attributes of the element at r.
AttributesAt(o, r) == ElemAt(o, r).dict.attributes

\* The overlay of the attributes of the elements at S, in iteration order:
\* each key holds the value of the last element that carries it.
Overlay(o, S) ==
  [ a \in UNION { DOMAIN AttributesAt(o, r) : r \in S } |->
      AttributesAt(o, LastRef({ r \in S : a \in DOMAIN AttributesAt(o, r) }))[a] ]

\* The occurrences, in the lists that start with a record, of the identity
\* of the entry at ab of ret[kind].
OccurrencesOf(kind, ab) ==
  IF kind = "vertices"
  THEN VertexRefsIn(op.input, RecordListRefs(op.input),
                    EntryType(ret.vertices, ab), EntryId(ret.vertices, ab))
  ELSE EdgeRefsIn(op.input, RecordListRefs(op.input),
                  EntryType(ret.edges, ab), EntryId(ret.edges, ab))

\* C2: the attributes of every returned vertex and edge are the overlay of
\* the attributes of its occurrences: each key holds the value of the
\* latest occurrence that carried it, and a key that only earlier
\* occurrences carried is kept.
C2_AttributeOverlay ==
  Returned =>
    \A kind \in {"vertices", "edges"} :
      \A ab \in EntryRefs(ret[kind]) :
        /\ OccurrencesOf(kind, ab) # {}
        /\ EntryRecord(ret[kind], ab).attributes
             = Overlay(op.input, OccurrencesOf(kind, ab))

\* An identity seen twice: the later occurrence overwrites a key of the
\* earlier one and lacks another key, which is kept.
C2_Witness ==
  /\ Returned
  /\ \E kind \in {"vertices", "edges"} :
       \E ab \in EntryRefs(ret[kind]) :
         LET S == OccurrencesOf(kind, ab)
             first == AttributesAt(op.input, FirstRef(S))
             last  == AttributesAt(op.input, LastRef(S))
             got   == EntryRecord(ret[kind], ab).attributes
         IN  /\ Cardinality(S) = 2
             /\ \E a \in DOMAIN first \cap DOMAIN last :
                  first[a] # last[a] /\ got[a] = last[a]
             /\ \E b \in DOMAIN first \ DOMAIN last : got[b] = first[b]

\* C3: every edge element has exactly one entry edges[e_type][e_id] with
\* e_id the composite from_type(from_id)->to_type(to_id), shared by all
\* edge elements of that type and composite identity whatever their
\* attributes, and the entry's e_id field is the composite string.
C3_EdgeIdentity ==
  Returned =>
    \A r \in RecordListRefs(op.input) :
      IsEdge(ElemAt(op.input, r)) =>
        LET d == ElemAt(op.input, r).dict
            E == EntriesAt(ret.edges, d.e_type, CompositeId(d))
        IN  /\ Cardinality(E) = 1
            /\ \A ab \in E : EntryRecord(ret.edges, ab).e_id = CompositeId(d)
            /\ Cardinality({ ab \in EntryRefs(ret.edges) :
                               /\ EntryType(ret.edges, ab) = d.e_type
                               /\ EntryRecord(ret.edges, ab).e_id = CompositeId(d) }) = 1

\* Two edge elements of one type and one composite identity with different
\* attribute sets, returned as one entry.
C3_Witness ==
  /\ Returned
  /\ \E ab \in EntryRefs(ret.edges) :
       LET S == OccurrencesOf("edges", ab)
       IN  /\ Cardinality(S) = 2
           /\ DOMAIN AttributesAt(op.input, FirstRef(S))
                # DOMAIN AttributesAt(op.input, LastRef(S))
           /\ Len(ret.edges) = 1
           /\ Len(ret.edges[1][2]) = 1

\* The labels under which the elements at the sequence of references rs
\* stand.
LabelsOf(o, rs) == [ j \in 1..Len(rs) |-> LabelAt(o, rs[j]) ]

\* C4 as stated: a new identity is inserted with x_occurrences 1 and
\* x_sources [label] and each repeat increments and appends, so every
\* returned vertex and edge has as x_sources the labels of its occurrences
\* in encounter order and as x_occurrences their number.
C4_OccurrencesAndSources ==
  Returned =>
    \A kind \in {"vertices", "edges"} :
      \A ab \in EntryRefs(ret[kind]) :
        LET rs == InOrder(OccurrencesOf(kind, ab))
            d  == EntryRecord(ret[kind], ab)
        IN  /\ d.x_sources = LabelsOf(op.input, rs)
            /\ d.x_occurrences = Len(rs)
            /\ Len(d.x_sources) = d.x_occurrences

\* The payload is a non-empty list of records none of which has v_type or
\* e_type.
PlainRecords(payload) ==
  /\ IsList(payload)
  /\ Len(payload.list) > 0
  /\ \A k \in 1..Len(payload.list) :
       /\ IsRecord(payload.list[k])
       /\ "v_type" \notin DOMAIN payload.list[k].dict
       /\ "e_type" \notin DOMAIN payload.list[k].dict

\* The payloads of o as (label, value) entries, in encounter order.
AsEntries(o, rs) ==
  [ j \in 1..Len(rs) |-> [label |-> LabelAt(o, rs[j]), value |-> PayloadAt(o, rs[j])] ]

\* The payload references of S as a sequence in encounter order.
RECURSIVE PayloadsInOrder(_)
PayloadsInOrder(S) ==
  IF S = {} THEN << >>
  ELSE LET r == CHOOSE x \in S : \A q \in S \ {x} :
                  x[1] < q[1] \/ (x[1] = q[1] /\ x[2] < q[2])
       IN  << r >> \o PayloadsInOrder(S \ {r})

\* C5 as stated: a payload that is a list of records none of which has
\* v_type or e_type adds exactly one entry (label, value) to the list ou,
\* whatever its length: a query result made of such payloads gives one
\* entry per payload, in encounter order.
C5_OneEntryPerPlainList ==
  (/\ Returned
   /\ \A r \in PayloadRefs(op.input) : PlainRecords(PayloadAt(op.input, r)))
  => op.ou = AsEntries(output, PayloadsInOrder(PayloadRefs(op.input)))

\* The entry of ou holds a value that is not a list.
HoldsNonList(entry) == ~IsList(entry.value)

\* The vertex identities <<v_type, v_id>> among the elements at S.
VertexIdentities(o, S) ==
  { << ElemAt(o, r).dict.v_type, ElemAt(o, r).dict.v_id >> :
      r \in { q \in S : IsVertex(ElemAt(o, q)) } }

\* The edge identities <<e_type, composite>> among the elements at S.
EdgeIdentities(o, S) ==
  { << ElemAt(o, r).dict.e_type, CompositeId(ElemAt(o, r).dict) >> :
      r \in { q \in S : IsEdge(ElemAt(o, q)) } }

\* C6: the payloads that are not lists are in the list ou, one entry
\* (label, value) each, in encounter order and without deduplication, and
\* they add no vertex and no edge: vertices and edges hold the identities
\* of the list elements and nothing else.
C6_NonListPayloads ==
  Returned =>
    /\ SelectSeq(op.ou, HoldsNonList)
         = AsEntries(op.input,
                     PayloadsInOrder({ r \in PayloadRefs(op.input) :
                                         ~IsList(PayloadAt(op.input, r)) }))
    /\ { << EntryType(ret.vertices, ab), EntryId(ret.vertices, ab) >> :
           ab \in EntryRefs(ret.vertices) }
         = VertexIdentities(op.input, RecordListRefs(op.input))
    /\ { << EntryType(ret.edges, ab), EntryId(ret.edges, ab) >> :
           ab \in EntryRefs(ret.edges) }
         = EdgeIdentities(op.input, RecordListRefs(op.input))

\* The same label with the same number in two frames: two equal entries,
\* no vertex and no edge.
C6_Witness ==
  /\ Returned
  /\ Len(op.input) = 2
  /\ \A r \in PayloadRefs(op.input) : ~IsList(PayloadAt(op.input, r))
  /\ Len(op.ou) = 2
  /\ op.ou[1] = op.ou[2]
  /\ ret.vertices = << >>
  /\ ret.edges = << >>

\* C7: the dictionary returned has the keys vertices and edges, and the
\* key output exactly when graphOnly is False; the call with the other
\* value of graphOnly on the same input returns the same vertices and
\* edges.
C7_KeysAndGraphOnly ==
  Returned =>
    LET SameGraph(other) ==
          /\ other.err = "none"
          /\ other.ret.vertices = ret.vertices
          /\ other.ret.edges = ret.edges
    IN  /\ DOMAIN ret = IF op.graphOnly THEN {"vertices", "edges"}
                        ELSE {"vertices", "edges", "output"}
        /\ SameGraph(parseQueryOutput(op.input, ~op.graphOnly, op.schema, db))

\* A call with graphOnly False that returns a vertex and other output.
C7_Witness ==
  /\ Returned
  /\ ~op.graphOnly
  /\ ret.vertices # << >>
  /\ Len(ret.output) > 0

\* C8 as stated: when the query result holds an element of neither shape
\* (a record with v_type and without v_id and a non-record after a record
\* included), the call completes and the payload of the element is in the
\* list ou.
C8_NeverFailsOnOtherElements ==
  Parsed =>
    \A r \in ElemRefs(op.input) :
      IsNeither(ElemAt(op.input, r)) =>
        /\ err = "none"
        /\ \E j \in 1..Len(op.ou) :
             op.ou[j] = [label |-> LabelAt(op.input, r),
                         value |-> PayloadAt(output, r)]

(***************************************************************************)
(* Order and reverse edges of the decoded graph.                           *)
(***************************************************************************)

\* The first occurrence in the input of the identity at ab.
FirstSeen(kind, ab) == FirstRef(OccurrencesOf(kind, ab))

\* The input has an occurrence of the identity at ab after the first
\* occurrence of the identity at cd.
SeenAgainAfter(kind, ab, cd) ==
  \E r \in OccurrencesOf(kind, ab) : RefBefore(FirstSeen(kind, cd), r)

\* C16: parseQueryOutput is deterministic (the same input parsed again with
\* the snapshot the call left returns the same value) and, within each
\* type, vertices[type] and edges[type] list the identities in the order of
\* their first occurrence in the input, whether or not an identity occurs
\* again later.
C16_FirstDiscoveryOrder ==
  Returned =>
    LET Same(again) == again.err = "none" /\ again.ret = ret
    IN  /\ Same(parseQueryOutput(op.input, op.graphOnly, schema, db))
        /\ \A kind \in {"vertices", "edges"} :
             \A ab, cd \in EntryRefs(ret[kind]) :
               (ab[1] = cd[1] /\ ab[2] < cd[2])
                 => RefBefore(FirstSeen(kind, ab), FirstSeen(kind, cd))

\* Two identities of one type were returned and the first was seen again
\* after the second had been discovered.
C16_Witness ==
  /\ Returned
  /\ \E kind \in {"vertices", "edges"} :
       \E ab, cd \in EntryRefs(ret[kind]) :
         /\ ab[1] = cd[1] /\ ab[2] < cd[2]
         /\ SeenAgainAfter(kind, ab, cd)

\* The edge types of the snapshot named t.
EdgeTypesNamed(t) ==
  { k \in 1..Len(schema.EdgeTypes) : schema.EdgeTypes[k].Name = t }

\* The edge type declares a reverse edge: it is directed and its Config
\* has REVERSE_EDGE.
DeclaresReverse(et) == et.IsDirected /\ "REVERSE_EDGE" \in DOMAIN et.Config

\* C19: every edge record parseQueryOutput returns carries reverse_edge = R
\* when its type is directed and the type's Config declares
\* REVERSE_EDGE = R, and carries no reverse_edge when the type is undirected
\* or declares none, for records seen once and for records merged from
\* several occurrences.
C19_ReverseEdge ==
  Returned =>
    \A ab \in EntryRefs(ret.edges) :
      /\ EdgeTypesNamed(EntryType(ret.edges, ab)) # {}
      /\ \A k \in EdgeTypesNamed(EntryType(ret.edges, ab)) :
           IF DeclaresReverse(schema.EdgeTypes[k])
           THEN /\ "reverse_edge" \in DOMAIN EntryRecord(ret.edges, ab)
                /\ EntryRecord(ret.edges, ab).reverse_edge
                     = schema.EdgeTypes[k].Config.REVERSE_EDGE
           ELSE "reverse_edge" \notin DOMAIN EntryRecord(ret.edges, ab)

\* An edge of a type with a reverse edge and an edge of a directed type
\* without one were returned together.
C19_Witness ==
  /\ Returned
  /\ \E ab, cd \in EntryRefs(ret.edges) :
       /\ "reverse_edge" \in DOMAIN EntryRecord(ret.edges, ab)
       /\ "reverse_edge" \notin DOMAIN EntryRecord(ret.edges, cd)
       /\ \E k \in EdgeTypesNamed(EntryType(ret.edges, cd)) :
            schema.EdgeTypes[k].IsDirected

\* C21 as stated: parseQueryOutput keeps no state between invocations: a
\* second call on the query result the first call was given, with the same
\* graphOnly, returns what the first call returned.
C21_SecondCallReturnsTheSame ==
  [][ ( /\ Returned
        /\ ncalls' = ncalls + 1
        /\ err' = "none"
        /\ op'.graphOnly = op.graphOnly )
      => ret' = ret ]_vars

\* The identities <<type, id>> of the vertices (kind "vertices") or of the
\* edges of the query result the call was given.
IdentitiesIn(kind) ==
  IF kind = "vertices" THEN VertexIdentities(op.input, RecordListRefs(op.input))
  ELSE EdgeIdentities(op.input, RecordListRefs(op.input))

\* Another type has the same id: the identity x shares its id with an
\* identity of X that has another type.
SharesId(x, X) == \E y \in X : y[2] = x[2] /\ y[1] # x[1]

\* C29: vertices with the same v_id and different v_type, and edges with
\* the same composite identity and different e_type, are not merged: each
\* of them has its own entry under its own type, whose attributes are the
\* overlay of the occurrences of that type alone, whose x_occurrences counts
\* the occurrences of that type alone and whose x_sources lists their
\* labels alone (each on top of what the first occurrence carried when the
\* call started).
C29_KeyedInsideOwnType ==
  Returned =>
    \A kind \in {"vertices", "edges"} :
      /\ \A x \in IdentitiesIn(kind) :
           SharesId(x, IdentitiesIn(kind)) =>
             Cardinality(EntriesAt(ret[kind], x[1], x[2])) = 1
      /\ \A ab \in EntryRefs(ret[kind]) :
           SharesId(<< EntryType(ret[kind], ab), EntryId(ret[kind], ab) >>,
                    IdentitiesIn(kind)) =>
             LET S == OccurrencesOf(kind, ab)
                 first == ElemAt(op.input, FirstRef(S)).dict
                 d == EntryRecord(ret[kind], ab)
             IN  /\ d.attributes = Overlay(op.input, S)
                 /\ d.x_occurrences = Cardinality(S) + Carried(first)
                 /\ d.x_sources
                      = CarriedSources(first) \o LabelsOf(op.input, InOrder(S))

\* A fresh query result with two vertices, or two edges, of one id and two
\* types has been decoded: two entries with different attributes, each
\* seen once.
C29_Witness ==
  /\ Returned
  /\ ncalls = 1
  /\ \E kind \in {"vertices", "edges"} :
       \E ab, cd \in EntryRefs(ret[kind]) :
         /\ EntryId(ret[kind], ab) = EntryId(ret[kind], cd)
         /\ EntryType(ret[kind], ab) # EntryType(ret[kind], cd)
         /\ EntryRecord(ret[kind], ab).attributes # EntryRecord(ret[kind], cd).attributes
         /\ EntryRecord(ret[kind], ab).x_occurrences = 1
         /\ EntryRecord(ret[kind], cd).x_occurrences = 1

(***************************************************************************)
(* Properties of getSchema, stated on the state its call leaves:           *)
(* op.schema and op.db are the snapshot and the database as the call       *)
(* found them.                                                             *)
(***************************************************************************)

\* The last call was getSchema.
GotSchema == op.name = "getSchema"

\* A snapshot with all the parts getSchema(full=True) builds.
FullSnapshot(s) ==
  /\ ~Falsy(s)
  /\ \A key \in {"UDTs", "Queries", "Users", "Groups"} : HasKey(s, key)

\* C9: a getSchema call without force that finds a full snapshot sends no
\* request to the server (no GET, no gsql), leaves the snapshot as it was
\* and returns it.
C9_UnforcedIsNoOp ==
  (GotSchema /\ ~op.force /\ FullSnapshot(op.schema)) =>
    /\ calls = << >>
    /\ err = "none"
    /\ schema = op.schema
    /\ ret = op.schema

\* A call getSchema(full=True, force=False) on a full snapshot taken from
\* a database whose schema has changed since.
C9_Witness ==
  /\ GotSchema
  /\ op.full
  /\ ~op.force
  /\ FullSnapshot(op.schema)
  /\ op.schema.EdgeTypes # op.db.schema.EdgeTypes
  /\ ret = op.schema

\* C10: a getSchema call with force leaves the snapshot that the same call
\* builds when there is no snapshot: no record of the snapshot it found is
\* carried over.
C10_ForcedIsRebuild ==
  (GotSchema /\ op.force) =>
    LET Same(rebuilt) == schema = rebuilt.schema /\ err = rebuilt.err
    IN  Same(getSchema(Ctx(NoSchema), op.db, op.full, TRUE))

\* A forced full call that completes on a full snapshot holding an index, a
\* loading job, a data source, a graph and a query.
C10_Witness ==
  /\ GotSchema
  /\ op.force
  /\ op.full
  /\ err = "none"
  /\ FullSnapshot(op.schema)
  /\ \A key \in {"Indexes", "LoadingJobs", "DataSources", "Graphs", "Queries"} :
       Len(op.schema[key]) > 0 /\ Len(schema[key]) = Len(op.schema[key])

(***************************************************************************)
(* Properties of the text parse (_getSchemaLs) as getSchema runs it.       *)
(***************************************************************************)

\* The snapshot getSchema(full, force=True) builds from the database d when
\* there is none: one complete rebuild.
Rebuild(d, full) == getSchema(Ctx(NoSchema), d, full, TRUE).schema

\* The last call was getSchema and it raised inside _getSchemaLs: the last
\* request it sent belongs to the text parse.
LsFailed ==
  /\ GotSchema
  /\ err # "none"
  /\ calls # << >>
  /\ calls[Len(calls)] \in {"gsql ls", "gsql SHOW QUERY"}

\* C11 as stated: when the text parse has failed partway, the getSchema
\* call without force that follows either fails or returns a complete
\* rebuild, never the snapshot holding the records parsed before the
\* failure.
C11_NoPartialSchemaAfterFailure ==
  [][ ( /\ LsFailed
        /\ db' = db
        /\ op'.name = "getSchema"
        /\ ~op'.force
        /\ err' = "none" )
      => ret' = Rebuild(db', op'.full) ]_vars

\* The lines of the ls text the last getSchema call met.
LsText == Split(op.db.ls, NL)

\* The last call was getSchema and it ran the text parse to its end or to
\* its failure.
LsRan == GotSchema /\ \E k \in 1..Len(calls) : calls[k] = "gsql ls"

\* A vertex or edge line that has no opening parenthesis.
HeaderWithoutParen(l) ==
  /\ StartsWith(l, <<" ", " ", "-", " ", "V", "E", "R", "T", "E", "X">>) \/ StartsWith(l, <<" ", " ", "-", " ", "D", "I", "R", "E", "C", "T", "E", "D">>)
       \/ StartsWith(l, <<" ", " ", "-", " ", "U", "N", "D", "I", "R", "E", "C", "T",
      "E", "D">>)
  /\ Find(l, <<"(">>) = -1

\* C12 as stated: when the ls text holds a vertex or edge line without '(',
\* the text parse raises; it never continues silently past the malformed
\* line.
C12_MalformedLineRaises ==
  (LsRan /\ \E k \in 1..Len(LsText) : HeaderWithoutParen(LsText[k]))
    => err # "none"

\* The ls texts of the databases that are well formed: every block has its
\* delimiters and its closing line.
ValidLs == { DbA.ls, DbB.ls, DbI.ls, DbJ.ls }

\* The record has a Statement and it is not empty.
HasStatement(rec) == HasKey(rec, "Statement") /\ rec.Statement # << >>

\* C13 as stated, for the index blocks: after getSchema has parsed a valid
\* ls text, every index record of the snapshot has a non-empty Statement.
C13_EveryIndexHasStatement ==
  (LsRan /\ err = "none" /\ op.db.ls \in ValidLs)
    => \A k \in 1..Len(schema.Indexes) : HasStatement(schema.Indexes[k])

\* The members of a set of numbers in increasing order.
Ordered(S) ==
  [ n \in 1..Cardinality(S) |->
      CHOOSE x \in S : Cardinality({ y \in S : y < x }) = n - 1 ]

\* The position of the first character c of the line l.
FirstChar(l, c) == SetMin({ k \in 1..Len(l) : l[k] = c })

\* The positions of the lines of index blocks: the non-blank lines that
\* follow an "Indexes:" header with no blank line in between.
IndexLines(lines) ==
  { k \in 1..Len(lines) :
      \E h \in 1..(k - 1) :
        /\ StartsWith(lines[h], <<"I", "n", "d", "e", "x", "e", "s", ":">>)
        /\ \A j \in (h + 1)..k : lines[j] # << >> }

\* The record the index line "  - N:V(A)" stands for.
IndexOf(l) ==
  [Name      |-> SubSeq(l, 5, FirstChar(l, ":") - 1),
   Vertex    |-> SubSeq(l, FirstChar(l, ":") + 1, FirstChar(l, "(") - 1),
   Attribute |-> SubSeq(l, FirstChar(l, "(") + 1, FirstChar(l, ")") - 1)]

\* The index records of the text, in line order.
IndexesOf(lines) ==
  LET Records(at) == [ n \in 1..Len(at) |-> IndexOf(lines[at[n]]) ]
  IN  Records(Ordered(IndexLines(lines)))

\* The positions of the graph lines that directly follow the blank line
\* closing an index block.
GraphLinesAfterIndexes(lines) ==
  { k \in 3..Len(lines) :
      /\ StartsWith(lines[k], <<" ", " ", "-", " ", "G", "r", "a", "p", "h">>)
      /\ lines[k - 1] = << >>
      /\ (k - 2) \in IndexLines(lines) }

\* C14: after getSchema has parsed a valid ls text, the index records of the
\* snapshot are the records of the lines '  - N:V(A)' between each
\* 'Indexes:' header and the first blank line after it, in line order; the
\* line after that blank line is left to the outer loop (a graph line there
\* yields its graph record); the text 'Indexes:\n  - idx1:Person(name)\n\n'
\* yields the one record {idx1, Person, name}.
C14_IndexBlock ==
  (LsRan /\ err = "none" /\ op.db.ls \in ValidLs) =>
    /\ schema.Indexes = IndexesOf(LsText)
    /\ \A k \in GraphLinesAfterIndexes(LsText) :
         \E g \in 1..Len(schema.Graphs) :
           schema.Graphs[g].Text = SliceFrom(LsText[k], 10)
    /\ op.db.ls = <<"I", "n", "d", "e", "x", "e", "s", ":", "\n", " ", " ", "-",
      " ", "i", "d", "x", "1", ":", "P", "e", "r", "s", "o", "n",
      "(", "n", "a", "m", "e", ")", "\n", "\n">> =>
         schema.Indexes = << [Name |-> <<"i", "d", "x", "1">>, Vertex |-> <<"P", "e", "r", "s", "o", "n">>,
                              Attribute |-> <<"n", "a", "m", "e">>] >>

\* getSchema has parsed a text with two index lines, a blank line and a
\* graph line after it.
C14_Witness ==
  /\ LsRan /\ err = "none" /\ op.db = DbJ
  /\ Len(schema.Indexes) = 2
  /\ GraphLinesAfterIndexes(LsText) # {}

\* The line stops a loading job.
StopsJob(l) == StartsWith(l, <<" ", " ", "-", " ", "C", "R", "E", "A", "T", "E">>) \/ StartsWith(l, <<"Q", "u", "e", "r", "i", "e", "s">>)

\* The positions of the loading job headers.
JobLines(lines) ==
  { k \in 1..Len(lines) : StartsWith(lines[k], <<" ", " ", "-", " ", "C", "R", "E", "A", "T", "E", " ", "L",
      "O", "A", "D", "I", "N", "G", " ", "J", "O", "B">>) }

\* The position of the line that stops the job whose header is at h.
JobStop(lines, h) ==
  SetMin({ k \in (h + 1)..Len(lines) : StopsJob(lines[k]) })

\* The record of the job whose header is at h: its name is the fourth
\* word of the header; its statement is the header and the lines before the
\* stop line, each without its four leading characters, without the blanks
\* and line ends that trail the last of them.
JobOf(lines, h) ==
  [Name      |-> Split(SliceFrom(lines[h], 4), <<" ">>)[4],
   Statement |->
     RStrip(Join([ n \in 1..(JobStop(lines, h) - h) |->
                     SliceFrom(lines[h + n - 1], 4) ], NL), {" ", "\n"})]

\* The loading job records of the text, in line order.
JobsOf(lines) ==
  LET Records(at) == [ n \in 1..Len(at) |-> JobOf(lines, at[n]) ]
  IN  Records(Ordered(JobLines(lines)))

\* The positions of the query lines that directly follow a "Queries:" line
\* that stops a loading job.
QueryLinesAfterJobs(lines) ==
  { k \in 2..Len(lines) :
      /\ lines[k] # << >>
      /\ StartsWith(lines[k - 1], <<"Q", "u", "e", "r", "i", "e", "s", ":">>)
      /\ \E h \in JobLines(lines) : JobStop(lines, h) = k - 1 }

\* C15: after getSchema has parsed a valid ls text, the loading job records
\* of the snapshot are one per '  - CREATE LOADING JOB' line, in line order,
\* each with the header and the lines before the next line that starts with
\* '  - CREATE' or 'Queries' for Statement; the stop line is classified by
\* the outer loop: a job header there has its own record and the query
\* after a 'Queries:' stop line is in the query list.
C15_LoadingJobs ==
  (LsRan /\ err = "none" /\ op.db.ls \in ValidLs) =>
    /\ schema.LoadingJobs = JobsOf(LsText)
    /\ \A k \in QueryLinesAfterJobs(LsText) :
         \E q \in 1..Len(schema.Queries) :
           schema.Queries[q].Name
             = SubSeq(LsText[k], 5, FirstChar(LsText[k], "(") - 1)

\* getSchema has parsed a text with two loading jobs in a row, the second
\* stopped by the 'Queries:' line of a query list that is not empty.
C15_Witness ==
  /\ LsRan /\ err = "none" /\ op.db = DbJ
  /\ Len(schema.LoadingJobs) = 2
  /\ \E h \in JobLines(LsText) : StartsWith(LsText[h + 1], <<" ", " ", " ", " ", "}">>)
       /\ JobStop(LsText, h) = h + 2
       /\ (h + 3) \in QueryLinesAfterJobs(LsText)

(* Properties of the query list (_getSchemaLs and _getQueries). *)
\* The last call was getSchema(full=True) and it completed.
FullDone == GotSchema /\ op.full /\ err = "none"

\* The last call fetched the dynamic endpoints.
EndpointsRan == GotSchema /\ \E k \in 1..Len(calls) : calls[k] = "GET endpoints"

\* The positions of the records of schema.Queries named name.
QueriesNamed(name) ==
  { k \in 1..Len(schema.Queries) : schema.Queries[k].Name = name }

\* The dynamic endpoints of the database the last call met, as the server
\* lists them: the keys that start with GET /query/<graph>.
DynamicEndpoints ==
  SelectSeq(op.db.endpoints,
            LAMBDA e : SubSeq(e[1], 1, 12) = <<"G", "E", "T", " ", "/", "q", "u", "e", "r", "y", "/", "g">>)

\* The default query name of the endpoint at k.
DefaultQuery(k) == DynamicEndpoints[k][2].parameters.query.default

\* C17: after getSchema(full=True) has completed, no two records of
\* schema.Queries share a Name; when the call has fetched the endpoints,
\* each endpoint's default query name has exactly one record, also when
\* the query is listed in the text and when two endpoints share the name.
C17_QueryNamesUnique ==
  FullDone =>
    /\ \A i, j \in 1..Len(schema.Queries) :
         schema.Queries[i].Name = schema.Queries[j].Name => i = j
    /\ EndpointsRan =>
         \A k \in 1..Len(DynamicEndpoints) :
           Cardinality(QueriesNamed(DefaultQuery(k))) = 1

\* getSchema(full=True) has parsed a text that lists q1 twice and fetched
\* two endpoints whose default query is q1.
C17_Witness ==
  /\ FullDone /\ LsRan /\ EndpointsRan
  /\ \E i, j \in 1..Len(DynamicEndpoints) :
       i # j /\ DefaultQuery(i) = DefaultQuery(j)
  /\ \E i, j \in 1..Len(LsText) :
       i # j /\ LsText[i] = LsText[j] /\ LsText[i] = <<" ", " ", "-", " ", "q", "1", "(", "s", "t", "r", "i", "n",
      "g", " ", "p", ")">>

\* The method and the path of the endpoint at k: the parts of its key
\* before and after the first blank.
MethodOf(k) ==
  SubSeq(DynamicEndpoints[k][1], 1, FirstChar(DynamicEndpoints[k][1], " ") - 1)

PathOf(k) ==
  SubSeq(DynamicEndpoints[k][1], FirstChar(DynamicEndpoints[k][1], " ") + 1,
         Len(DynamicEndpoints[k][1]))

\* The parameters of the endpoint at k without 'query'.
ParametersOf(k) ==
  [ p \in DOMAIN DynamicEndpoints[k][2].parameters \ {"query"} |->
      DynamicEndpoints[k][2].parameters[p] ]

\* The record named by the default query of the endpoint at k carries the
\* method, the path and the parameters of that endpoint.
EndpointFilled(k) ==
  \E q \in QueriesNamed(DefaultQuery(k)) :
    /\ {"Method", "Endpoint", "Parameters"} \subseteq DOMAIN schema.Queries[q]
    /\ schema.Queries[q].Method = MethodOf(k)
    /\ schema.Queries[q].Endpoint = PathOf(k)
    /\ schema.Queries[q].Parameters = ParametersOf(k)

\* No later endpoint has the default query of the endpoint at k.
LastForQuery(k) ==
  \A j \in (k + 1)..Len(DynamicEndpoints) : DefaultQuery(j) # DefaultQuery(k)

\* The records qs that _getQueries found are still the first records, with
\* the Name, Statement and Deprecated they had, and the records after them
\* are stubs: a Name that qs did not have and the three endpoint fields.
QueriesKept(qs) ==
  /\ Len(qs) <= Len(schema.Queries)
  /\ \A i \in 1..Len(qs) :
       \A f \in {"Name", "Statement", "Deprecated"} :
         /\ f \in DOMAIN qs[i] <=> f \in DOMAIN schema.Queries[i]
         /\ f \in DOMAIN qs[i] => schema.Queries[i][f] = qs[i][f]
  /\ \A i \in (Len(qs) + 1)..Len(schema.Queries) :
       /\ DOMAIN schema.Queries[i] = {"Name", "Method", "Endpoint", "Parameters"}
       /\ \A j \in 1..Len(qs) : qs[j].Name # schema.Queries[i].Name

\* The Queries list as the text parse of the last call left it, before
\* _getQueries ran.
TextParse ==
  _getSchemaLs(getSchemaUDTs(getSchemaBase(Ctx(op.schema), op.db, op.force),
                             op.db, op.force), op.db)

\* C18 as stated: after _getQueries has run, for each dynamic endpoint the
\* record named by its default query carries that endpoint's method, path
\* and parameters without 'query'.
C18_EveryEndpointFills ==
  (EndpointsRan /\ err = "none") =>
    \A k \in 1..Len(DynamicEndpoints) : EndpointFilled(k)

\* C18, amended: after _getQueries has run, for each dynamic endpoint that
\* is the last one with its default query name, the record named by that
\* default carries the endpoint's method, path and parameters without
\* 'query'; the records the text parse left keep their place, Name,
\* Statement and Deprecated, and a stub of a new name is appended for each
\* name they do not hold.
C18_LastEndpointFills ==
  (EndpointsRan /\ err = "none") =>
    /\ \A k \in 1..Len(DynamicEndpoints) : LastForQuery(k) => EndpointFilled(k)
    /\ QueriesKept(TextParse.schema.Queries)

\* _getQueries has filled a listed query from the later of two endpoints
\* that share its name, leaving its Statement, and appended a stub.
C18_Witness ==
  /\ EndpointsRan /\ err = "none"
  /\ \E k \in 1..Len(DynamicEndpoints) :
       /\ ~LastForQuery(k)
       /\ \E q \in QueriesNamed(DefaultQuery(k)) :
            "Statement" \in DOMAIN schema.Queries[q]
  /\ \E q \in 1..Len(schema.Queries) : "Statement" \notin DOMAIN schema.Queries[q]

(* Calls made one after the other. *)
\* The snapshots one rebuild can give: what getSchema(full, force=True)
\* builds from one of the databases when it completes, with and without the
\* parts that full adds.
Rebuilds ==
  { Rebuild(x[1], x[2]) :
      x \in { y \in Databases \X BOOLEAN :
                getSchema(Ctx(NoSchema), y[1], y[2], TRUE).err = "none" } }

\* C20 as stated: the calls of a behaviour are made one at a time (each
\* getSchema step is a whole call); when no call fails, every snapshot a
\* call returns is the result of one complete rebuild.  In steps: a call
\* that finds no snapshot, or the snapshot of one complete rebuild, and
\* does not fail returns the snapshot of one complete rebuild.
C20_SerializedCallsReturnRebuilds ==
  [][ ( /\ err = "none"
        /\ schema \in Rebuilds \cup {NoSchema}
        /\ op'.name = "getSchema" /\ op' # op
        /\ err' = "none" )
      => ret' \in Rebuilds ]_vars

(***************************************************************************)
(* Properties of the outer loop of _getSchemaLs.                           *)
(***************************************************************************)

\* The text parse is running or has ended.
InLs == op.name = "_getSchemaLs"

\* A pass of the outer loop has been made and it did not raise.
Passed == InLs /\ op.from >= 0 /\ err = "none"

\* The line the pass just made classified.
PassedLine == op.res[op.from + 1]

\* C24: at the end of every pass of the outer loop the cursor is greater
\* than at its start, also after the pass of a loading job, which puts the
\* cursor back by one, and it is never beyond the end of the text: the loop
\* ends after at most as many passes as the text has lines and classifies
\* no line twice.
C24_CursorAdvances ==
  InLs => /\ op.i <= Len(op.res)
          /\ Passed => op.i > op.from

\* The pass of a loading job has been made: the cursor stands on the line
\* that stopped the job and that line is not the last one.
C24_Witness ==
  /\ Passed
  /\ StartsWith(PassedLine, <<" ", " ", "-", " ", "C", "R", "E", "A", "T", "E", " ", "L",
      "O", "A", "D", "I", "N", "G", " ", "J", "O", "B">>)
  /\ op.i > op.from + 1
  /\ ~PastEnd(op.res, op.i)
  /\ StopsJob(op.res[op.i + 1])

\* The line matches none of the block predicates of the outer loop.
Unmatched(l) ==
  \A header \in { <<" ", " ", "-", " ", "V", "E", "R", "T", "E", "X">>, <<" ", " ", "-", " ", "D", "I", "R", "E", "C", "T", "E", "D">>, <<" ", " ", "-", " ", "U", "N", "D", "I", "R", "E", "C", "T",
      "E", "D">>, <<"I", "n", "d", "e", "x", "e", "s", ":">>,
                  <<" ", " ", "-", " ", "C", "R", "E", "A", "T", "E", " ", "L",
      "O", "A", "D", "I", "N", "G", " ", "J", "O", "B">>, <<"Q", "u", "e", "r", "i", "e", "s", ":">>, <<"U", "s", "e", "r", " ", "d", "e", "f", "i", "n", "e", "d",
      " ", "t", "u", "p", "l", "e", "s", ":">>,
                  <<"D", "a", "t", "a", " ", "S", "o", "u", "r", "c", "e", "s",
      ":">>, <<" ", " ", "-", " ", "G", "r", "a", "p", "h">> } : ~StartsWith(l, header)

\* The parse has ended without raising, on a text of unmatched lines only.
UnmatchedTextDone ==
  /\ InLs
  /\ err = "none"
  /\ PastEnd(op.res, op.i)
  /\ \A k \in 1..Len(op.res) : Unmatched(op.res[k])

\* C25: a pass on a line that matches none of the block predicates moves
\* the cursor on by exactly one and leaves self.schema as it was; after a
\* text made of such lines only, every key the snapshot had holds what it
\* held when the parse was entered, and the only new keys are the missing
\* kinds, each an empty list.
C25_UnmatchedLineChangesNothing ==
  /\ (Passed /\ Unmatched(PassedLine)) =>
       (op.i = op.from + 1 /\ schema = op.schema)
  /\ UnmatchedTextDone =>
       /\ DOMAIN op.base \subseteq DOMAIN schema
       /\ \A key \in DOMAIN schema :
            IF key \in DOMAIN op.base THEN schema[key] = op.base[key]
            ELSE schema[key] = << >> /\ \E k \in DOMAIN LsObjTypes : LsObjTypes[k] = key

\* A text of several unmatched lines, not all of them empty, has been
\* parsed to its end; the snapshot had vertex types before and has got the
\* list of indexes.
C25_Witness ==
  /\ UnmatchedTextDone
  /\ op.from >= 3
  /\ \E k \in 1..Len(op.res) : op.res[k] # << >>
  /\ "VertexTypes" \in DOMAIN op.base
  /\ "Indexes" \in DOMAIN schema \ DOMAIN op.base

\* The names of the records of a list of self.schema.
NamesIn(sch, key) ==
  IF HasKey(sch, key) THEN { sch[key][k].Name : k \in 1..Len(sch[key]) } ELSE {}

\* The lines of the block that the pass just made has consumed.
PassedBlock == { op.res[k] : k \in (op.from + 2)..(op.i - 1) }

\* The pass just made met a lookup miss: a vertex or an edge line, or a
\* line of a block of tuple types, naming an object that self.schema did
\* not hold before the pass.
LookupMiss ==
  \/ /\ StartsWith(PassedLine, <<" ", " ", "-", " ", "V", "E", "R", "T", "E", "X">>)
     /\ Slice(PassedLine, 11, Find(PassedLine, <<"(">>))
          \notin NamesIn(op.schema, "VertexTypes")
  \/ /\ ~Unmatched(PassedLine)
     /\ StartsWith(SubSeq(PassedLine, 5, Len(PassedLine)), <<"D", "I", "R", "E", "C", "T", "E", "D">>)
          \/ StartsWith(SubSeq(PassedLine, 5, Len(PassedLine)), <<"U", "N", "D", "I", "R", "E", "C", "T", "E", "D">>)
     /\ Slice(PassedLine, Find(PassedLine, <<"E", "D", "G", "E">>) + 5, Find(PassedLine, <<"(">>))
          \notin NamesIn(op.schema, "EdgeTypes")
  \/ /\ StartsWith(PassedLine, <<"U", "s", "e", "r", " ", "d", "e", "f", "i", "n", "e", "d",
      " ", "t", "u", "p", "l", "e", "s", ":">>)
     /\ \E u \in PassedBlock :
          RStrip(Slice(u, 4, Find(u, <<"(">>)), {" "})
            \notin NamesIn(op.schema, "UDTs")

\* Every value self.schema held before the pass is still there: a list may
\* only have grown at its end.
ExistingKept ==
  \A key \in DOMAIN op.schema :
    /\ key \in DOMAIN schema
    /\ Len(schema[key]) >= Len(op.schema[key])
    /\ SubSeq(schema[key], 1, Len(op.schema[key])) = op.schema[key]

\* C26 as stated: a pass that meets a lookup miss does not raise, keeps
\* every existing object as it was, and records something for the missing
\* object (self.schema is not what it was before the pass); a pass of an
\* index block records every index line, whatever vertex type it names.
C26_LookupMissIsRecorded ==
  /\ (InLs /\ op.from >= 0 /\ LookupMiss) =>
       /\ err = "none"
       /\ ExistingKept
       /\ schema # op.schema
  /\ (Passed /\ StartsWith(PassedLine, <<"I", "n", "d", "e", "x", "e", "s", ":">>)) =>
       Len(schema.Indexes) = Len(op.schema.Indexes) + Cardinality(PassedBlock)

\* The pass just made was on a line that begins with the header of an
\* index, query-list, tuple or data-source block and goes on after it.
HeaderAndMore ==
  /\ InLs
  /\ op.from >= 0
  /\ \E header \in { <<"I", "n", "d", "e", "x", "e", "s", ":">>, <<"Q", "u", "e", "r", "i", "e", "s", ":">>, <<"U", "s", "e", "r", " ", "d", "e", "f", "i", "n", "e", "d",
      " ", "t", "u", "p", "l", "e", "s", ":">>,
                     <<"D", "a", "t", "a", " ", "S", "o", "u", "r", "c", "e", "s",
      ":">> } :
       StartsWith(PassedLine, header) /\ PassedLine # header

\* C28 as stated: a line that begins with the header of a block and goes on
\* with other characters opens no block and is ignored: the pass on it does
\* not raise, moves the cursor on by one and leaves self.schema as it was.
C28_OnlyExactHeaderOpensBlock ==
  HeaderAndMore => (err = "none" /\ op.i = op.from + 1 /\ schema = op.schema)

(***************************************************************************)
(* Properties of the accessors.                                            *)
(***************************************************************************)

\* The snapshot the last call found holds at least one user defined type.
FoundUDTs == HasKey(op.schema, "UDTs") /\ Len(op.schema.UDTs) > 0

\* The fields of the types of the snapshot named name, in a set.
FieldsNamed(name) ==
  { schema.UDTs[k].Fields : k \in { j \in 1..Len(schema.UDTs) :
                                      schema.UDTs[j].Name = name } }

\* C22 as stated: on a snapshot that holds at least one user defined type,
\* getUDTs does not fail and returns the names of the types of the
\* snapshot, and getUDT does not fail and returns the fields of the type
\* with the name asked for, [] when there is none.
C22_UDTAccessors ==
  (op.name \in {"getUDTs", "getUDT"} /\ FoundUDTs) =>
    /\ err = "none"
    /\ op.name = "getUDTs" =>
         ret = [ k \in 1..Len(schema.UDTs) |-> schema.UDTs[k].Name ]
    /\ op.name = "getUDT" =>
         IF FieldsNamed(op.arg) = {} THEN ret = << >>
         ELSE ret \in FieldsNamed(op.arg)

\* The edge types of the snapshot with the name the last call asked for.
AskedEdgeTypes ==
  { schema.EdgeTypes[k] : k \in EdgeTypesNamed(op.arg) }

\* The end of an edge type as the accessor reports it: end is
\* "FromVertexTypeName" with side "From", or "ToVertexTypeName" with "To".
EndOf(et, end, side) ==
  IF et[end] # << "*" >> THEN [str |-> et[end]]
  ELSE IF "EdgePairs" \in DOMAIN et
  THEN [set |-> { p[side] : p \in { et.EdgePairs[k] : k \in DOMAIN et.EdgePairs } }]
  ELSE [str |-> << "*" >>]

\* C23: for an edge type of the snapshot, getEdgeSourceVertexType returns
\* its FromVertexTypeName when that is not '*', the set of the From values
\* of its EdgePairs when it is '*' and the type has EdgePairs, and '*' when
\* it is '*' and there are none; getEdgeTargetVertexType does the same with
\* ToVertexTypeName and To.
C23_EdgeEnds ==
  /\ (op.name = "getEdgeSourceVertexType" /\ AskedEdgeTypes # {}) =>
       /\ err = "none"
       /\ \A et \in AskedEdgeTypes : ret = EndOf(et, "FromVertexTypeName", "From")
  /\ (op.name = "getEdgeTargetVertexType" /\ AskedEdgeTypes # {}) =>
       /\ err = "none"
       /\ \A et \in AskedEdgeTypes : ret = EndOf(et, "ToVertexTypeName", "To")

\* getEdgeSourceVertexType has returned the two source types of an edge
\* type whose pairs name one of them twice.
C23_Witness ==
  /\ op.name = "getEdgeSourceVertexType" /\ err = "none"
  /\ "set" \in DOMAIN ret
  /\ Cardinality(ret.set) = 2
  /\ \E et \in AskedEdgeTypes : Len(et.EdgePairs) = 3

\* The last call was one of the readers of the snapshot, made without
\* force.
ReaderCall ==
  /\ op.name \in { "getSchema", "getVertexTypes", "getVertexType", "getEdgeTypes",
                   "getEdgeType", "isDirected", "getReverseEdge", "parseQueryOutput" }
  /\ "force" \in DOMAIN op => ~op.force

\* C27: a getSchema(force=False), getVertexTypes(), getVertexType(),
\* getEdgeTypes(), getEdgeType(), isDirected(), getReverseEdge() or
\* parseQueryOutput() call that finds a full snapshot leaves the snapshot as
\* it was and sends no request to the server, whatever calls were made
\* before it and whatever the database has become.
C27_ReadersLeaveSnapshot ==
  (ReaderCall /\ FullSnapshot(op.schema)) => (schema = op.schema /\ calls = << >>)

\* parseQueryOutput has decoded an edge of type K from a full snapshot and
\* given it the reverse edge the snapshot names, while the database has
\* changed and no longer has K.
C27_Witness ==
  /\ op.name = "parseQueryOutput"
  /\ FullSnapshot(op.schema)
  /\ err = "none"
  /\ db = DbB
  /\ <<"K">> \in NamesIn(schema, "EdgeTypes")
  /\ \E k \in 1..Len(output[1][1][2].list) :
       /\ HasKey(output[1][1][2].list[k].dict, "reverse_edge")
       /\ output[1][1][2].list[k].dict.reverse_edge = <<"r", "K">>

\* The decimal numeral of a number below 1000.
Decimal(n) ==
  LET D(k) == << "0", "1", "2", "3", "4", "5", "6", "7", "8", "9" >>[k + 1]
  IN  IF n < 10 THEN << D(n) >>
      ELSE IF n < 100 THEN << D(n \div 10), D(n % 10) >>
      ELSE << D(n \div 100), D((n \div 10) % 10), D(n % 10) >>

\* The number the request is to carry for an argument: the argument when
\* it is an integer from 1 to most, the default 10 when it was left out or
\* is not an integer.
Carries(arg, most) ==
  IF arg.type = "int" /\ arg.val \in 1..most THEN arg.val ELSE 10

\* C30 as stated: the request of getStatistics(seconds, segment) carries
\* seconds=<seconds> for every integer seconds from 1 to 60 and
\* segment=<segment> for every integer segment from 1 to 100, and the
\* defaults 10 and 10 for an argument left out or not an integer.
C30_RequestCarriesArguments ==
  op.name = "getStatistics" =>
    /\ err = "none"
    /\ ret.url = <<"/", "s", "t", "a", "t", "i", "s", "t", "i", "c", "s", "/",
      "g", "?", "s", "e", "c", "o", "n", "d", "s", "=">> \o Decimal(Carries(op.seconds, 60))
                   \o <<"&", "s", "e", "g", "m", "e", "n", "t", "=">> \o Decimal(Carries(op.segment, 100))
====
